---- MODULE Spec2Model ----
(***************************************************************************)
(* Candyblock: the match-3 board engine (lib/game/utils), the turn state   *)
(* machine of useGameEngine, the SweetChainEconomy contract, the paid      *)
(* entry of the page, and the claims of the specification about them.      *)
(*                                                                         *)
(* Spec      resolveMatches / resolveWithInitialRemoval, one action per    *)
(*           iteration of their loops.                                     *)
(* SpecLive  Spec with the loop running on.                                *)
(* SpecGen   createBoardCandidate / generateInitialBoard, one action per   *)
(*           cell decision.                                                *)
(* SpecTurn  the handlers of useGameEngine, one action per synchronous     *)
(*           segment (the code between two awaits).                        *)
(* SpecTurnLive  SpecTurn with the timers of the handlers firing.          *)
(* SpecRare  the handlers and the auto-reshuffle effect on the boards      *)
(*           that have no playable move.                                   *)
(* SpecOverlap  the handlers with a second swap made while the first is    *)
(*           being resolved.                                               *)
(* SpecBomb  the handlers on a board where a swap leaves a bomb.           *)
(* SpecMove  hasPlayableMove, one call per board.                          *)
(* SpecChain the external functions of SweetChainEconomy, one action per   *)
(*           transaction, for one run and the owner's settings.            *)
(* SpecPool  finalizeRun, claimReward, drainPool and receive on a pool     *)
(*           with six entered runs.                                        *)
(* SpecPage  HomePage with useSweetchainWallet: the effects of the first   *)
(*           render and handleRestartPaid, one action per await.           *)
(* SpecSettle  HomePage at the end of a run: the settle and lock effects   *)
(*           and handleClaimReward, one action per await.                  *)
(* SpecSettleLive  SpecSettle with the timers firing and the effects run.  *)
(***************************************************************************)
EXTENDS Integers, Sequences, FiniteSets, TLC

VARIABLES
    \* ---- resolveMatches / resolveWithInitialRemoval (locals of one call)
    pc,               \* "start" | "loop" | "done" ("off" outside Spec)
    fn,               \* which of the two functions is running
    input,            \* the board argument
    initialKeys,      \* the initialKeys argument (keys in insertion order)
    working,          \* let working
    totalRemoved,     \* const totalRemoved
    totalPoints,      \* let totalPoints
    steps,            \* const steps
    extraMoveReward,  \* let extraMoveReward
    nextId,           \* ids handed out so far (randomId never repeats)
    \* ---- useGameEngine (React state and the handlers in flight)
    status, board, selected, movesLeft, score, missions, missionIndex,
    reshuffles, lastInvalidSwap, handlers, lastAction, turns,
    \* ---- generateInitialBoard (locals of one call, and its Math.random())
    gen,
    \* ---- SweetChainEconomy (contract storage, balances, the last call)
    chain,
    \* ---- HomePage and useSweetchainWallet (React state, the handler in flight)
    page

engineVars == <<pc, fn, input, initialKeys, working, totalRemoved, totalPoints,
                steps, extraMoveReward>>
hookVars == <<status, board, selected, movesLeft, score, missions, missionIndex,
              reshuffles, lastInvalidSwap, handlers, lastAction, turns>>
vars == <<engineVars, nextId, hookVars, gen, chain, page>>

----------------------------------------------------------------------------
(* Constants of lib/game/constants                                         *)

BOARD_SIZE == 8
CANDY_COLORS == <<"red", "orange", "yellow", "green", "blue", "purple">>
MATCH_SCORE_BASE == 10
LONG_MATCH_LENGTH == 4
MAX_RESHUFFLES_PER_RUN == 1
MISSION_SCORE_MULTIPLIER == 5
BASE_MOVE_LIMIT == 17
STARTING_RESHUFFLES == 1

(* Bounds of the model.  Math.random() is drawn from RandomGrain evenly    *)
(* spaced values k / RandomGrain; the draws of one operation repeat with   *)
(* period TapeLen.                                                         *)
RandomGrain == 3
TapeLen == 1

Idx == 0 .. (BOARD_SIZE - 1)
Positions == [row : Idx, col : Idx]
Tapes == [1 .. TapeLen -> 0 .. (RandomGrain - 1)]

\* the i-th call of Math.random() (i = 0, 1, ...) under a tape
Roll(tape, i) == tape[(i % TapeLen) + 1]

Null == [id |-> 0, color |-> "none", special |-> "none"]
None == [row |-> -1, col |-> -1]

Range(s) == {s[i] : i \in DOMAIN s}

Colors == Range(CANDY_COLORS)

Max(x, y) == IF x >= y THEN x ELSE y
Min(x, y) == IF x <= y THEN x ELSE y

\* f[1] + ... + f[n]
RECURSIVE SumTo(_, _)
SumTo(f, n) == IF n = 0 THEN 0 ELSE f[n] + SumTo(f, n - 1)

\* TRUE.  TLC passes operator arguments unevaluated; a loop that starts each
\* iteration with Now(state) evaluates its state there instead of at the end.
Now(v) == v = v

----------------------------------------------------------------------------
(* lib/game/utils                                                          *)

\* randomColor without the filter on exclude
randomColorAny(exclude, roll) ==
    CANDY_COLORS[((roll * Len(CANDY_COLORS)) \div RandomGrain) + 1]

\* randomColor: roll stands for Math.random() = roll / RandomGrain
randomColor(exclude, roll) ==
    LET pool == SelectSeq(CANDY_COLORS, LAMBDA color : color \notin exclude)
        targetPool == IF Len(pool) > 0 THEN pool ELSE CANDY_COLORS
        index == (roll * Len(targetPool)) \div RandomGrain
    IN  targetPool[index + 1]

createCandy(color, id) == [id |-> id, color |-> color, special |-> "none"]

positionKey(p) == <<p.row, p.col>>
positionFromKey(key) == [row |-> key[1], col |-> key[2]]

\* a list instead of a set: a key is added again when a second run covers it
SetAddAlways(keys, key) == Append(keys, key)

\* Set.prototype.add on a set kept in insertion order
SetAdd(keys, key) ==
    IF \E i \in DOMAIN keys : keys[i] = key THEN keys ELSE Append(keys, key)

cloneBoard(b) == [r \in DOMAIN b |-> [c \in DOMAIN b[r] |-> b[r][c]]]

swapCandies(b, p, q) ==
    LET next == cloneBoard(b)
        temp == next[p.row][p.col]
        next1 == [next EXCEPT ![p.row][p.col] = next[q.row][q.col]]
    IN  [next1 EXCEPT ![q.row][q.col] = temp]

Abs(x) == IF x < 0 THEN -x ELSE x

\* adjacency that also accepts the diagonal neighbours
areAdjacentOrDiagonal(p, q) ==
    LET rowDiff == Abs(p.row - q.row)
        colDiff == Abs(p.col - q.col)
    IN  rowDiff <= 1 /\ colDiff <= 1 /\ rowDiff + colDiff > 0

areAdjacent(p, q) ==
    LET rowDiff == Abs(p.row - q.row)
        colDiff == Abs(p.col - q.col)
    IN  (rowDiff = 1 /\ colDiff = 0) \/ (rowDiff = 0 /\ colDiff = 1)

\* the inner while of a horizontal scan: the run of board[r][c] to the right
RECURSIVE RunRight(_, _, _, _)
RunRight(b, r, c, len) ==
    IF c + len < BOARD_SIZE /\ b[r][c + len].color = b[r][c].color
    THEN RunRight(b, r, c, len + 1)
    ELSE len

RECURSIVE RunDown(_, _, _, _)
RunDown(b, r, c, len) ==
    IF r + len < BOARD_SIZE /\ b[r + len][c].color = b[r][c].color
    THEN RunDown(b, r, c, len + 1)
    ELSE len

\* for (let k = 0; k < len; k += 1) matchKeys.add(positionKey(...)), from k on
RECURSIVE AddRun(_, _, _, _, _, _, _)
AddRun(keys, r, c, dr, dc, k, len) ==
    IF Now(keys) /\ k >= len THEN keys
    ELSE AddRun(SetAdd(keys, positionKey([row |-> r + dr * k, col |-> c + dc * k])),
                r, c, dr, dc, k + 1, len)

\* runs counted from length 4 on
NoteRunFromFour(acc, r, c, dr, dc, len) ==
    IF len >= 4
    THEN [matchKeys |-> AddRun(acc.matchKeys, r, c, dr, dc, 0, len),
          bombKeys  |-> IF len >= 5
                        THEN acc.bombKeys \cup
                             {positionKey([row |-> r + dr * (len \div 2),
                                           col |-> c + dc * (len \div 2)])}
                        ELSE acc.bombKeys,
          longGroups |-> IF len >= LONG_MATCH_LENGTH
                         THEN acc.longGroups + 1 ELSE acc.longGroups]
    ELSE acc

\* runs counted from length 2 on
NoteRunFromTwo(acc, r, c, dr, dc, len) ==
    IF len >= 2
    THEN [matchKeys |-> AddRun(acc.matchKeys, r, c, dr, dc, 0, len),
          bombKeys  |-> IF len >= 5
                        THEN acc.bombKeys \cup
                             {positionKey([row |-> r + dr * (len \div 2),
                                           col |-> c + dc * (len \div 2)])}
                        ELSE acc.bombKeys,
          longGroups |-> IF len >= LONG_MATCH_LENGTH
                         THEN acc.longGroups + 1 ELSE acc.longGroups]
    ELSE acc

\* bomb at offset ceil(len / 2) of the run instead of floor(len / 2)
NoteRunBombCeil(acc, r, c, dr, dc, len) ==
    IF len >= 3
    THEN [matchKeys |-> AddRun(acc.matchKeys, r, c, dr, dc, 0, len),
          bombKeys  |-> IF len >= 5
                        THEN acc.bombKeys \cup
                             {positionKey([row |-> r + dr * ((len + 1) \div 2),
                                           col |-> c + dc * ((len + 1) \div 2)])}
                        ELSE acc.bombKeys,
          longGroups |-> IF len >= LONG_MATCH_LENGTH
                         THEN acc.longGroups + 1 ELSE acc.longGroups]
    ELSE acc

\* long runs counted from length 5 on
NoteRunLongFromFive(acc, r, c, dr, dc, len) ==
    IF len >= 3
    THEN [matchKeys |-> AddRun(acc.matchKeys, r, c, dr, dc, 0, len),
          bombKeys  |-> IF len >= 5
                        THEN acc.bombKeys \cup
                             {positionKey([row |-> r + dr * (len \div 2),
                                           col |-> c + dc * (len \div 2)])}
                        ELSE acc.bombKeys,
          longGroups |-> IF len >= 5
                         THEN acc.longGroups + 1 ELSE acc.longGroups]
    ELSE acc

\* what one run adds to the accumulators of findLineMatches
NoteRun(acc, r, c, dr, dc, len) ==
    IF len >= 3
    THEN [matchKeys |-> AddRun(acc.matchKeys, r, c, dr, dc, 0, len),
          bombKeys  |-> IF len >= 5
                        THEN acc.bombKeys \cup
                             {positionKey([row |-> r + dr * (len \div 2),
                                           col |-> c + dc * (len \div 2)])}
                        ELSE acc.bombKeys,
          longGroups |-> IF len >= LONG_MATCH_LENGTH
                         THEN acc.longGroups + 1 ELSE acc.longGroups]
    ELSE acc

RECURSIVE ScanRow(_, _, _, _)
ScanRow(b, r, c, acc) ==
    IF Now(acc) /\ c < BOARD_SIZE
    THEN LET len == RunRight(b, r, c, 1)
         IN  ScanRow(b, r, c + len, NoteRun(acc, r, c, 0, 1, len))
    ELSE acc

RECURSIVE ScanRows(_, _, _)
ScanRows(b, r, acc) ==
    IF Now(acc) /\ r < BOARD_SIZE
    THEN ScanRows(b, r + 1, ScanRow(b, r, 0, acc))
    ELSE acc

RECURSIVE ScanCol(_, _, _, _)
ScanCol(b, c, r, acc) ==
    IF Now(acc) /\ r < BOARD_SIZE
    THEN LET len == RunDown(b, r, c, 1)
         IN  ScanCol(b, c, r + len, NoteRun(acc, r, c, 1, 0, len))
    ELSE acc

RECURSIVE ScanCols(_, _, _)
ScanCols(b, c, acc) ==
    IF Now(acc) /\ c < BOARD_SIZE
    THEN ScanCols(b, c + 1, ScanCol(b, c, 0, acc))
    ELSE acc

findLineMatches(b) ==
    ScanCols(b, 0, ScanRows(b, 0, [matchKeys |-> <<>>, bombKeys |-> {}, longGroups |-> 0]))

\* forEach that records the matched tile and leaves it on the board
RECURSIVE RemoveMatchedKeepsTile(_, _, _, _)
RemoveMatchedKeepsTile(st, matches, bombKeys, i) ==
    IF Now(st) /\ i > Len(matches) THEN st
    ELSE LET p == positionFromKey(matches[i])
             candy == st.working[p.row][p.col]
             st1 == IF candy = Null THEN st
                    ELSE IF matches[i] \in bombKeys
                    THEN [st EXCEPT !.working[p.row][p.col] =
                                        [candy EXCEPT !.special = "bomb"]]
                    ELSE [working |-> st.working,
                          removed |-> Append(st.removed, candy)]
         IN  RemoveMatchedKeepsTile(st1, matches, bombKeys, i + 1)

\* forEach that records the tile kept as a bomb among the removed ones
RECURSIVE RemoveMatchedCountsBomb(_, _, _, _)
RemoveMatchedCountsBomb(st, matches, bombKeys, i) ==
    IF Now(st) /\ i > Len(matches) THEN st
    ELSE LET p == positionFromKey(matches[i])
             candy == st.working[p.row][p.col]
             st1 == IF candy = Null THEN st
                    ELSE IF matches[i] \in bombKeys
                    THEN [working |-> [st.working EXCEPT ![p.row][p.col] =
                                            [candy EXCEPT !.special = "bomb"]],
                          removed |-> Append(st.removed, candy)]
                    ELSE [working |-> [st.working EXCEPT ![p.row][p.col] = Null],
                          removed |-> Append(st.removed, candy)]
         IN  RemoveMatchedCountsBomb(st1, matches, bombKeys, i + 1)

\* matches.forEach of collapseBoard: st = [working, removed]
RECURSIVE RemoveMatched(_, _, _, _)
RemoveMatched(st, matches, bombKeys, i) ==
    IF Now(st) /\ i > Len(matches) THEN st
    ELSE LET p == positionFromKey(matches[i])
             candy == st.working[p.row][p.col]
             st1 == IF candy = Null THEN st
                    ELSE IF matches[i] \in bombKeys
                    THEN [st EXCEPT !.working[p.row][p.col] =
                                        [candy EXCEPT !.special = "bomb"]]
                    ELSE [working |-> [st.working EXCEPT ![p.row][p.col] = Null],
                          removed |-> Append(st.removed, candy)]
         IN  RemoveMatched(st1, matches, bombKeys, i + 1)

\* gravity that stacks the survivors of a column from the bottom in the order
\* it meets them from the top
GravityReversed(st, col, row) ==
    LET column == [i \in 1 .. BOARD_SIZE |-> st.working[i - 1][col]]
        survivors == SelectSeq(column, LAMBDA candy : candy # Null)
        n == Len(survivors)
    IN  [working |-> [r \in Idx |-> [c \in Idx |->
                        IF c # col THEN st.working[r][c]
                        ELSE IF r < BOARD_SIZE - n THEN Null
                        ELSE survivors[BOARD_SIZE - r]]],
         fallenTargets |-> st.fallenTargets,
         writeRow |-> BOARD_SIZE - n - 1]

\* gravity that counts the survivors of a column and moves none
GravityNoFall(st, col, row) ==
    [st EXCEPT !.writeRow =
        st.writeRow - Cardinality({r \in Idx : st.working[r][col] # Null})]

\* the gravity loop of one column: st = [working, fallenTargets, writeRow]
RECURSIVE Gravity(_, _, _)
Gravity(st, col, row) ==
    IF Now(st) /\ row < 0 THEN st
    ELSE LET candy == st.working[row][col]
             writeRow == st.writeRow
             st1 == IF candy # Null
                    THEN [working |->
                            IF writeRow # row
                            THEN [st.working EXCEPT ![writeRow][col] = candy,
                                                    ![row][col] = Null]
                            ELSE st.working,
                          fallenTargets |->
                            IF writeRow # row
                            THEN Append(st.fallenTargets,
                                        [from |-> [row |-> row, col |-> col],
                                         to |-> [row |-> writeRow, col |-> col],
                                         distance |-> writeRow - row])
                            ELSE st.fallenTargets,
                          writeRow |-> writeRow - 1]
                    ELSE st
         IN  Gravity(st1, col, row - 1)

\* working[row]?.[col]?.color, as the set of colours it adds to neighbors
ColorAt(w, row, col) ==
    IF row \in Idx /\ col \in Idx /\ w[row][col] # Null
    THEN {w[row][col].color} ELSE {}

\* spawn loop that stops above row 0 (row > 0)
RECURSIVE SpawnSkipsTop(_, _, _, _, _)
SpawnSkipsTop(st, col, row, tape, id0) ==
    IF Now(st) /\ row < 1 THEN st
    ELSE LET neighbors == ColorAt(st.working, row, col - 1)
                          \cup ColorAt(st.working, row, col - 2)
                          \cup ColorAt(st.working, row + 1, col)
                          \cup ColorAt(st.working, row + 2, col)
             color == randomColor(neighbors, Roll(tape, st.made))
             newCandy == createCandy(color, id0 + st.made)
             st1 == [working |-> [st.working EXCEPT ![row][col] = newCandy],
                     spawnedTargets |->
                        Append(st.spawnedTargets,
                               [to |-> [row |-> row, col |-> col], distance |-> row + 1]),
                     made |-> st.made + 1]
         IN  SpawnSkipsTop(st1, col, row - 1, tape, id0)

\* the spawn loop of one column: st = [working, spawnedTargets, made]
\* (made = tiles created so far in this collapse, each one call of
\* Math.random() and one new id)
RECURSIVE Spawn(_, _, _, _, _)
Spawn(st, col, row, tape, id0) ==
    IF Now(st) /\ row < 0 THEN st
    ELSE LET neighbors == ColorAt(st.working, row, col - 1)
                          \cup ColorAt(st.working, row, col - 2)
                          \cup ColorAt(st.working, row + 1, col)
                          \cup ColorAt(st.working, row + 2, col)
             color == randomColor(neighbors, Roll(tape, st.made))
             newCandy == createCandy(color, id0 + st.made)
             st1 == [working |-> [st.working EXCEPT ![row][col] = newCandy],
                     spawnedTargets |->
                        Append(st.spawnedTargets,
                               [to |-> [row |-> row, col |-> col], distance |-> row + 1]),
                     made |-> st.made + 1]
         IN  Spawn(st1, col, row - 1, tape, id0)

\* the column loop of collapseBoard
RECURSIVE Columns(_, _, _, _)
Columns(st, col, tape, id0) ==
    IF Now(st) /\ col >= BOARD_SIZE THEN st
    ELSE LET g == Gravity([working |-> st.working, fallenTargets |-> st.fallenTargets,
                           writeRow |-> BOARD_SIZE - 1], col, BOARD_SIZE - 1)
             s == Spawn([working |-> g.working, spawnedTargets |-> st.spawnedTargets,
                         made |-> st.made], col, g.writeRow, tape, id0)
             st1 == [working |-> s.working, fallenTargets |-> g.fallenTargets,
                     spawnedTargets |-> s.spawnedTargets, made |-> s.made]
         IN  Columns(st1, col + 1, tape, id0)

\* collapseBoard(board, matches, bombKeys); bombKeys = {} when it is not passed.
\* tape: the outcomes of Math.random(); id0: the first unused id.
collapseBoard(b, matches, bombKeys, tape, id0) ==
    LET cleared == RemoveMatched([working |-> cloneBoard(b), removed |-> <<>>],
                                 matches, bombKeys, 1)
        done == Columns([working |-> cleared.working, fallenTargets |-> <<>>,
                         spawnedTargets |-> <<>>, made |-> 0], 0, tape, id0)
    IN  [board |-> done.working,
         removed |-> cleared.removed,
         fallenTargets |-> done.fallenTargets,
         spawnedTargets |-> done.spawnedTargets,
         made |-> done.made]

\* counts of createCascadeStep: a partial record colour -> number
CountByColor(removed) ==
    [color \in {removed[i].color : i \in DOMAIN removed} |->
        Cardinality({i \in DOMAIN removed : removed[i].color = color})]

createCascadeStep(positions, state) ==
    [positions |-> [i \in DOMAIN positions |-> positionFromKey(positions[i])],
     board |-> state.board,
     fallingTargets |-> state.fallenTargets,
     spawnedTargets |-> state.spawnedTargets,
     removedCountByColor |-> CountByColor(state.removed)]

\* the scan with dc stopping at 0: the column right of the bomb is left out
RECURSIVE DetonationScanShort(_, _, _, _)
DetonationScanShort(keys, center, dr, dc) ==
    IF Now(keys) /\ dr > 1 THEN keys
    ELSE IF dc > 0 THEN DetonationScanShort(keys, center, dr + 1, -1)
    ELSE LET r == center.row + dr
             c == center.col + dc
         IN  DetonationScanShort(
                IF r >= 0 /\ r < BOARD_SIZE /\ c >= 0 /\ c < BOARD_SIZE
                THEN SetAdd(keys, positionKey([row |-> r, col |-> c])) ELSE keys,
                center, dr, dc + 1)

RECURSIVE DetonationScan(_, _, _, _)
DetonationScan(keys, center, dr, dc) ==
    IF Now(keys) /\ dr > 1 THEN keys
    ELSE IF dc > 1 THEN DetonationScan(keys, center, dr + 1, -1)
    ELSE LET r == center.row + dr
             c == center.col + dc
         IN  DetonationScan(
                IF r >= 0 /\ r < BOARD_SIZE /\ c >= 0 /\ c < BOARD_SIZE
                THEN SetAdd(keys, positionKey([row |-> r, col |-> c])) ELSE keys,
                center, dr, dc + 1)

getDetonationKeys(b, center) == DetonationScan(<<>>, center, -1, -1)

----------------------------------------------------------------------------
(* Inputs                                                                  *)

\* A board generateInitialBoard can return: no run, no same-colour cluster
\* of 3 or more, and a playable move.
BaseColors ==
    << <<"green",  "blue",   "red",    "purple", "green",  "orange", "purple", "yellow">>,
       <<"yellow", "blue",   "red",    "blue",   "green",  "blue",   "orange", "green">>,
       <<"green",  "purple", "orange", "red",    "red",    "blue",   "purple", "blue">>,
       <<"green",  "purple", "red",    "orange", "purple", "red",    "green",  "green">>,
       <<"red",    "yellow", "blue",   "orange", "yellow", "red",    "blue",   "red">>,
       <<"red",    "green",  "orange", "purple", "blue",   "green",  "purple", "purple">>,
       <<"orange", "green",  "yellow", "orange", "red",    "yellow", "yellow", "blue">>,
       <<"purple", "purple", "red",    "orange", "purple", "purple", "green",  "orange">> >>

BaseBoard ==
    [r \in Idx |-> [c \in Idx |->
        createCandy(BaseColors[r + 1][c + 1], r * BOARD_SIZE + c + 1)]]

FirstFreeId == BOARD_SIZE * BOARD_SIZE + 1

AdjacentPairs == {pq \in Positions \X Positions : areAdjacent(pq[1], pq[2])}

WithBomb(b, p) == [b EXCEPT ![p.row][p.col].special = "bomb"]

\* boards handed to resolveMatches: the base board after any adjacent swap
MatchInputs ==
    {BaseBoard} \cup {swapCandies(BaseBoard, pq[1], pq[2]) : pq \in AdjacentPairs}

\* where the bomb of a detonation input lies before the swap: a corner, an
\* edge, the interior, next to a corner
BombCells ==
    {[row |-> 0, col |-> 0], [row |-> 0, col |-> 4], [row |-> 3, col |-> 7],
     [row |-> 7, col |-> 7], [row |-> 5, col |-> 3], [row |-> 2, col |-> 2],
     [row |-> 6, col |-> 7]}

\* arguments of resolveWithInitialRemoval: a bomb swapped from p to q,
\* detonated at q; and the call with no key
RemovalInputs ==
    {LET swapped == swapCandies(WithBomb(BaseBoard, pq[1]), pq[1], pq[2])
     IN  [board |-> swapped, keys |-> getDetonationKeys(swapped, pq[2])] :
        pq \in {xy \in AdjacentPairs : xy[1] \in BombCells}}
    \cup {[board |-> BaseBoard, keys |-> <<>>]}

----------------------------------------------------------------------------
(* resolveMatches and resolveWithInitialRemoval, pass by pass              *)

PassLimit == 50

GenOff == gen = [pc |-> "off"]

ChainOff == chain = [pc |-> "off"]

PageOff == page = [pc |-> "off"]

EngineOff ==
    /\ pc = "off" /\ fn = "none" /\ input = BaseBoard /\ initialKeys = <<>>
    /\ working = BaseBoard /\ totalRemoved = <<>> /\ totalPoints = 0
    /\ steps = <<>> /\ extraMoveReward = 0

HookOff ==
    /\ status = "locked" /\ board = BaseBoard /\ selected = None
    /\ movesLeft = 0 /\ score = 0 /\ missions = <<>> /\ missionIndex = 0
    /\ reshuffles = 0 /\ lastInvalidSwap = None /\ handlers = {}
    /\ lastAction = "none" /\ turns = 0

InitEngine ==
    /\ \/ /\ fn = "resolveMatches"
          /\ input \in MatchInputs
          /\ initialKeys = <<>>
          /\ pc = "loop"
       \/ /\ fn = "resolveWithInitialRemoval"
          /\ \E arg \in RemovalInputs : input = arg.board /\ initialKeys = arg.keys
          /\ pc = "start"
    /\ working = cloneBoard(input)
    /\ totalRemoved = <<>>
    /\ totalPoints = 0
    /\ steps = <<>>
    /\ extraMoveReward = 0
    /\ nextId = FirstFreeId
    /\ HookOff
    /\ GenOff
    /\ ChainOff
    /\ PageOff

\* detect->collapse passes made so far (the initial detonation is not one)
Passes ==
    Len(steps) - (IF fn = "resolveWithInitialRemoval" /\ Len(initialKeys) > 0 /\ pc # "start"
                  THEN 1 ELSE 0)

\* resolveWithInitialRemoval: "Initial detonation"
InitialRemoval ==
    /\ pc = "start"
    /\ pc' = "loop"
    /\ IF Len(initialKeys) > 0
       THEN \E tape \in Tapes :
              \E state \in {collapseBoard(working, initialKeys, {}, tape, nextId)} :
                  /\ steps' = Append(steps, createCascadeStep(initialKeys, state))
                  /\ totalRemoved' = totalRemoved \o state.removed
                  /\ totalPoints' = totalPoints + Len(state.removed) * MATCH_SCORE_BASE
                  /\ working' = state.board
                  /\ nextId' = nextId + state.made
       ELSE UNCHANGED <<steps, totalRemoved, totalPoints, working, nextId>>
    /\ UNCHANGED <<fn, input, initialKeys, extraMoveReward, hookVars, gen, chain, page>>

\* one iteration of while (true) that finds a match
CascadePass ==
    /\ pc = "loop"
    /\ Passes <= PassLimit
    /\ \E found \in {findLineMatches(working)} :
           /\ Len(found.matchKeys) # 0
           /\ extraMoveReward' = extraMoveReward + found.longGroups
           /\ \E tape \in Tapes :
                \E state \in {collapseBoard(working, found.matchKeys, found.bombKeys,
                                            tape, nextId)} :
                    /\ totalRemoved' = totalRemoved \o state.removed
                    /\ totalPoints' = totalPoints + Len(state.removed) * MATCH_SCORE_BASE
                    /\ steps' = Append(steps, createCascadeStep(found.matchKeys, state))
                    /\ working' = state.board
                    /\ nextId' = nextId + state.made
    /\ UNCHANGED <<pc, fn, input, initialKeys, hookVars, gen, chain, page>>

\* the iteration that finds none: break, return
Return ==
    /\ pc = "loop"
    /\ Len(findLineMatches(working).matchKeys) = 0
    /\ pc' = "done"
    /\ UNCHANGED <<fn, input, initialKeys, working, totalRemoved, totalPoints, steps,
                   extraMoveReward, nextId, hookVars, gen, chain, page>>

NextEngine == InitialRemoval \/ CascadePass \/ Return

Spec == InitEngine /\ [][NextEngine]_vars

\* a step of the call is possible: ENABLED <<NextEngine>>_vars, spelled out
\* (every action changes pc or steps)
EngineEnabled ==
    \/ pc = "start"
    \/ /\ pc = "loop"
       /\ \/ Len(findLineMatches(working).matchKeys) = 0
          \/ Passes <= PassLimit

\* the loops run to their end: a call is synchronous and never suspended.
\* This is WF_vars(NextEngine) with its enabling condition written as the
\* state predicate above.
SpecLive == Spec /\ ([]<>(~EngineEnabled) \/ []<><<NextEngine>>_vars)

\* the MatchResult returned
Result ==
    [board |-> working, removed |-> totalRemoved, points |-> totalPoints,
     steps |-> steps, extraMoveReward |-> extraMoveReward]

----------------------------------------------------------------------------
(* resolveMatches and resolveWithInitialRemoval as whole calls: the set of  *)
(* results a call can return, one per outcome of Math.random()              *)

LoopStart(b, id0) ==
    [working |-> cloneBoard(b), totalRemoved |-> <<>>, totalPoints |-> 0,
     steps |-> <<>>, extraMoveReward |-> 0, nextId |-> id0]

\* the statements of a loop body after collapseBoard
Collapsed(st, positions, state, longGroups) ==
    [working |-> state.board,
     totalRemoved |-> st.totalRemoved \o state.removed,
     totalPoints |-> st.totalPoints + Len(state.removed) * MATCH_SCORE_BASE,
     steps |-> Append(st.steps, createCascadeStep(positions, state)),
     extraMoveReward |-> st.extraMoveReward + longGroups,
     nextId |-> st.nextId + state.made]

\* the loop body after findLineMatches has found a match
LoopPass(st, found, tape) ==
    Collapsed(st, found.matchKeys,
              collapseBoard(st.working, found.matchKeys, found.bombKeys, tape, st.nextId),
              found.longGroups)

\* while (true): the loop is cut after PassLimit passes
RECURSIVE Cascade(_)
Cascade(st) ==
    LET found == findLineMatches(st.working)
    IN  IF Now(st) /\ (Len(found.matchKeys) = 0 \/ Len(st.steps) > PassLimit)
        THEN {st}
        ELSE UNION {Cascade(LoopPass(st, found, tape)) : tape \in Tapes}

\* the MatchResult, and the first id the call left unused
MatchResultOf(st) ==
    [board |-> st.working, removed |-> st.totalRemoved, points |-> st.totalPoints,
     steps |-> st.steps, extraMoveReward |-> st.extraMoveReward, nextId |-> st.nextId]

resolveMatches(b, id0) == {MatchResultOf(st) : st \in Cascade(LoopStart(b, id0))}

resolveWithInitialRemoval(b, keys, id0) ==
    LET start == LoopStart(b, id0)
        detonated ==
            IF Len(keys) > 0
            THEN {Collapsed(start, keys, collapseBoard(start.working, keys, {}, tape, id0), 0) :
                    tape \in Tapes}
            ELSE {start}
    IN  {MatchResultOf(st) : st \in UNION {Cascade(d) : d \in detonated}}

\* the search that tries the swaps within a row only
hasPlayableMoveInRows(b) ==
    \E row \in Idx, col \in Idx :
        /\ col + 1 < BOARD_SIZE
        /\ \E swapped \in {swapCandies(b, [row |-> row, col |-> col],
                                          [row |-> row, col |-> col + 1])} :
             Len(findLineMatches(swapped).matchKeys) > 0

\* resolveMatches(swapped).steps.length > 0 holds exactly when the first pass
\* of the loop finds a match
hasPlayableMove(b) ==
    \E row \in Idx, col \in Idx :
        \/ /\ col + 1 < BOARD_SIZE
           /\ \E swapped \in {swapCandies(b, [row |-> row, col |-> col],
                                             [row |-> row, col |-> col + 1])} :
                Len(findLineMatches(swapped).matchKeys) > 0
        \/ /\ row + 1 < BOARD_SIZE
           /\ \E swapped \in {swapCandies(b, [row |-> row, col |-> col],
                                             [row |-> row + 1, col |-> col])} :
                Len(findLineMatches(swapped).matchKeys) > 0

----------------------------------------------------------------------------
(* createBoardCandidate and generateInitialBoard, one action per iteration *)
(* of their loops.  gen holds the locals and the tape Math.random() reads.  *)

\* 64 draws that colour the board in diagonal stripes of three colours
StripeTape ==
    [i \in 1 .. (BOARD_SIZE * BOARD_SIZE) |->
        (((i - 1) \div BOARD_SIZE) + ((i - 1) % BOARD_SIZE)) % 3]

\* the stripes and one more draw: the second candidate differs from the first
StripeTapeAndOne ==
    [i \in 1 .. (BOARD_SIZE * BOARD_SIZE + 1) |->
        IF i <= BOARD_SIZE * BOARD_SIZE THEN StripeTape[i] ELSE 1]

GenTapes == Tapes \cup {StripeTape, StripeTapeAndOne}

maxFix == BOARD_SIZE * BOARD_SIZE * 20

\* the next value of Math.random(), as a numerator over RandomGrain
GenRoll(g) == g.tape[g.draw + 1]

wouldCreateMatch(b, row, col, color) ==
    \/ /\ col >= 2
       /\ b[row][col - 1].color = color
       /\ b[row][col - 2].color = color
    \/ /\ row >= 2
       /\ b[row - 1][col].color = color
       /\ b[row - 2][col].color = color

\* board[row][col] = createCandy(randomColor(exclude))
PutRandom(g, row, col, exclude) ==
    [g EXCEPT !.board[row][col] = createCandy(randomColor(exclude, GenRoll(g)), g.nextId),
              !.draw = (g.draw + 1) % Len(g.tape),
              !.nextId = g.nextId + 1]

\* step 1: while (wouldCreateMatch(...) && attempts < 40)
RECURSIVE AvoidMatch(_, _, _, _)
AvoidMatch(g, row, col, attempts) ==
    IF Now(g) /\ attempts < 40
              /\ wouldCreateMatch(g.board, row, col, g.board[row][col].color)
    THEN AvoidMatch(PutRandom(g, row, col, {g.board[row][col].color}), row, col, attempts + 1)
    ELSE g

\* the neighbours bfsCluster looks at, in its order; the variant forgets the
\* left one
neighNoLeft(cur) ==
    << [row |-> cur.row - 1, col |-> cur.col], [row |-> cur.row + 1, col |-> cur.col],
       [row |-> cur.row, col |-> cur.col + 1] >>

neigh(cur) ==
    << [row |-> cur.row - 1, col |-> cur.col], [row |-> cur.row + 1, col |-> cur.col],
       [row |-> cur.row, col |-> cur.col - 1], [row |-> cur.row, col |-> cur.col + 1] >>

\* for (const nb of neigh): seen.add, q.push
RECURSIVE PushNeighbours(_, _, _, _, _)
PushNeighbours(b, color, acc, nbs, i) ==
    IF Now(acc) /\ i > Len(nbs) THEN acc
    ELSE PushNeighbours(b, color,
            IF /\ nbs[i].row >= 0 /\ nbs[i].row < BOARD_SIZE
               /\ nbs[i].col >= 0 /\ nbs[i].col < BOARD_SIZE
               /\ b[nbs[i].row][nbs[i].col].color = color
               /\ nbs[i] \notin acc.seen
            THEN [acc EXCEPT !.seen = acc.seen \cup {nbs[i]}, !.q = Append(acc.q, nbs[i])]
            ELSE acc,
            nbs, i + 1)

\* while (q.length): q.pop(), out.push(cur)
RECURSIVE bfsLoop(_, _, _)
bfsLoop(b, color, acc) ==
    IF Now(acc) /\ Len(acc.q) = 0 THEN acc
    ELSE bfsLoop(b, color,
            PushNeighbours(b, color,
                [q |-> SubSeq(acc.q, 1, Len(acc.q) - 1), seen |-> acc.seen,
                 out |-> Append(acc.out, acc.q[Len(acc.q)])],
                neigh(acc.q[Len(acc.q)]), 1))

\* the cluster of (r, c) in the order of out, and seen after the search
bfsCluster(b, seen, r, c) ==
    bfsLoop(b, b[r][c].color,
            [q |-> <<[row |-> r, col |-> c]>>, seen |-> seen \cup {[row |-> r, col |-> c]},
             out |-> <<>>])

\* do { board[pick] = createCandy(randomColor([original])) }
\* while (attempts < 20 && wouldCreateMatch(...))
RECURSIVE BreakCluster(_, _, _, _)
BreakCluster(g, pick, original, attempts) ==
    IF Now(g) /\ attempts >= 1
              /\ ~(attempts < 20
                   /\ wouldCreateMatch(g.board, pick.row, pick.col,
                                       g.board[pick.row][pick.col].color))
    THEN g
    ELSE BreakCluster(PutRandom(g, pick.row, pick.col, {original}), pick, original, attempts + 1)

\* a cluster counts from this size on; the variant starts at 4
IsClusterFromFour(cluster) == Len(cluster) >= 4

IsCluster(cluster) == Len(cluster) >= 3

\* the body of for (c ...) at cell (g.row, g.col)
FixCell(g) ==
    IF [row |-> g.row, col |-> g.col] \in g.seen THEN g
    ELSE LET found == bfsCluster(g.board, g.seen, g.row, g.col)
         IN  IF IsCluster(found.out)
             THEN LET pick == found.out[((GenRoll(g) * Len(found.out)) \div RandomGrain) + 1]
                  IN  [BreakCluster([g EXCEPT !.draw = (g.draw + 1) % Len(g.tape)],
                                    pick, g.board[pick.row][pick.col].color, 0)
                          EXCEPT !.seen = found.seen, !.fixedAny = TRUE,
                                 !.fixes = g.fixes + 1]
             ELSE [g EXCEPT !.seen = found.seen]

\* the loop headers after the body: the breaks at maxFix, the next cell, the
\* next pass of while (fixes < maxFix), or the return of the candidate
AfterFixCell(g) ==
    IF g.fixes >= maxFix THEN [g EXCEPT !.pc = "check"]
    ELSE IF g.col + 1 < BOARD_SIZE THEN [g EXCEPT !.col = g.col + 1]
    ELSE IF g.row + 1 < BOARD_SIZE THEN [g EXCEPT !.row = g.row + 1, !.col = 0]
    ELSE IF ~g.fixedAny THEN [g EXCEPT !.pc = "check"]
    ELSE [g EXCEPT !.row = 0, !.col = 0, !.seen = {}, !.fixedAny = FALSE]

\* a call of generateInitialBoard about to make its first candidate
GenStart(tape) ==
    [pc |-> "create", tape |-> tape, draw |-> 0, nextId |-> FirstFreeId, attempt |-> 0,
     board |-> BaseBoard, row |-> 0, col |-> 0, fixes |-> 0, seen |-> {},
     fixedAny |-> FALSE]

InitGen ==
    /\ gen \in {GenStart(tape) : tape \in GenTapes}
    /\ ChainOff
    /\ PageOff
    /\ nextId = FirstFreeId
    /\ EngineOff
    /\ HookOff

\* createBoardCandidate: Array.from(..., () => createCandy(randomColor()))
CreateCandidate ==
    /\ gen.pc = "create"
    /\ gen' = [gen EXCEPT
                 !.pc = "avoid",
                 !.board = [r \in Idx |-> [c \in Idx |->
                     createCandy(
                         randomColor({}, gen.tape[((gen.draw + r * BOARD_SIZE + c)
                                                   % Len(gen.tape)) + 1]),
                         gen.nextId + r * BOARD_SIZE + c)]],
                 !.draw = (gen.draw + BOARD_SIZE * BOARD_SIZE) % Len(gen.tape),
                 !.nextId = gen.nextId + BOARD_SIZE * BOARD_SIZE,
                 !.row = 0, !.col = 0]
    /\ UNCHANGED <<engineVars, nextId, hookVars, chain, page>>

\* step 1 at one cell; after the last cell the locals of step 2
AvoidCell ==
    /\ gen.pc = "avoid"
    /\ \E g \in {AvoidMatch(gen, gen.row, gen.col, 0)} :
          gen' = IF g.col + 1 < BOARD_SIZE THEN [g EXCEPT !.col = g.col + 1]
                 ELSE IF g.row + 1 < BOARD_SIZE THEN [g EXCEPT !.row = g.row + 1, !.col = 0]
                 ELSE [g EXCEPT !.pc = "fix", !.row = 0, !.col = 0, !.fixes = 0,
                                !.seen = {}, !.fixedAny = FALSE]
    /\ UNCHANGED <<engineVars, nextId, hookVars, chain, page>>

\* step 2 at one cell
FixClusterCell ==
    /\ gen.pc = "fix"
    /\ \E g \in {FixCell(gen)} : gen' = AfterFixCell(g)
    /\ UNCHANGED <<engineVars, nextId, hookVars, chain, page>>

\* the test generateInitialBoard makes of a candidate; the variant takes any
AcceptsAny(candidate) == TRUE

Accepts(candidate) == hasPlayableMove(candidate)

\* if (hasPlayableMove(candidate)) return candidate
AcceptCandidate ==
    /\ gen.pc = "check"
    /\ gen.attempt < 40
    /\ Accepts(gen.board)
    /\ gen' = [gen EXCEPT !.pc = "returned"]
    /\ UNCHANGED <<engineVars, nextId, hookVars, chain, page>>

\* attempt += 1; after attempt 39 the candidate of the last line
RejectCandidate ==
    /\ gen.pc = "check"
    /\ gen.attempt < 40
    /\ ~Accepts(gen.board)
    /\ gen' = [gen EXCEPT !.pc = "create", !.attempt = gen.attempt + 1]
    /\ UNCHANGED <<engineVars, nextId, hookVars, chain, page>>

\* return createBoardCandidate(size)
ReturnLastCandidate ==
    /\ gen.pc = "check"
    /\ gen.attempt = 40
    /\ gen' = [gen EXCEPT !.pc = "returned"]
    /\ UNCHANGED <<engineVars, nextId, hookVars, chain, page>>

NextGen ==
    \/ CreateCandidate
    \/ AvoidCell
    \/ FixClusterCell
    \/ AcceptCandidate
    \/ RejectCandidate
    \/ ReturnLastCandidate

SpecGen == InitGen /\ [][NextGen]_vars

----------------------------------------------------------------------------
(* Missions                                                                *)

MissionTemplate(color, target, rewardMoves, scoreMilestone, movesPerMilestone) ==
    [color |-> color, target |-> target, rewardMoves |-> rewardMoves,
     scoreMilestone |-> scoreMilestone, movesPerMilestone |-> movesPerMilestone]

MISSION_SEQUENCE ==
    << MissionTemplate("red", 24, 1, 600, 1),     MissionTemplate("blue", 28, 1, 700, 1),
       MissionTemplate("green", 36, 2, 800, 1),   MissionTemplate("yellow", 44, 2, 900, 1),
       MissionTemplate("purple", 55, 3, 1000, 1), MissionTemplate("orange", 64, 3, 1100, 1),
       MissionTemplate("red", 76, 3, 1200, 1),    MissionTemplate("blue", 88, 3, 1300, 1),
       MissionTemplate("green", 100, 3, 1400, 1), MissionTemplate("yellow", 115, 4, 1500, 1),
       MissionTemplate("purple", 130, 4, 1600, 1), MissionTemplate("orange", 146, 4, 1700, 1),
       MissionTemplate("red", 162, 4, 1800, 1),   MissionTemplate("blue", 180, 4, 1900, 1),
       MissionTemplate("green", 198, 5, 2000, 1), MissionTemplate("yellow", 218, 5, 2100, 1),
       MissionTemplate("purple", 238, 5, 2200, 1), MissionTemplate("orange", 260, 5, 2300, 1),
       MissionTemplate("red", 282, 5, 2400, 1),   MissionTemplate("blue", 306, 6, 2500, 1) >>

\* Math.round(13 + target / 6 + levelIndex * 0.8), in thirtieths; never below 10
computeBaseMoves(template, levelIndex) ==
    LET moves == (2 * (390 + 5 * template.target + 24 * levelIndex) + 30) \div 60
    IN  Max(10, moves)

createMissionFromTemplate(template, levelIndex) ==
    [color |-> template.color,
     target |-> template.target,
     progress |-> 0,
     baseMoves |-> computeBaseMoves(template, levelIndex),
     reward |-> [amount |-> Max(0, template.rewardMoves)],
     rewardClaimed |-> FALSE,
     scoreProgress |-> 0,
     scoreMilestone |-> template.scoreMilestone,
     movesPerMilestone |-> Max(0, template.movesPerMilestone)]

\* Mission | null as a list of at most one mission (every caller turns it
\* into mission ? [mission] : [])
missionFromIndex(index) ==
    IF index + 1 \in DOMAIN MISSION_SEQUENCE
    THEN <<createMissionFromTemplate(MISSION_SEQUENCE[index + 1], index)>>
    ELSE <<>>

missionsCompleted(ms) == \A i \in DOMAIN ms : ms[i].progress >= ms[i].target

----------------------------------------------------------------------------
(* useGameEngine: the hook state and its handlers                          *)

\* turns (swap requests) of a run
MaxTurns == 1

\* the cells a player clicks
ClickCells ==
    {[row |-> 4, col |-> 2], [row |-> 4, col |-> 3],
     [row |-> 5, col |-> 2], [row |-> 5, col |-> 3]}

\* a second board the generator returns
SecondColors ==
    << <<"purple", "blue",   "yellow", "orange", "green",  "yellow", "blue",   "orange">>,
       <<"yellow", "green",  "purple", "green",  "orange", "blue",   "green",  "orange">>,
       <<"purple", "purple", "blue",   "purple", "orange", "blue",   "purple", "blue">>,
       <<"yellow", "red",    "yellow", "green",  "purple", "purple", "yellow", "purple">>,
       <<"orange", "blue",   "green",  "red",    "blue",   "yellow", "blue",   "blue">>,
       <<"red",    "yellow", "purple", "orange", "orange", "purple", "orange", "green">>,
       <<"orange", "purple", "blue",   "yellow", "red",    "orange", "green",  "purple">>,
       <<"red",    "green",  "blue",   "green",  "blue",   "green",  "purple", "green">> >>

\* a board the generator returns on which the swap (4,2)-(4,3) can cascade
\* into a board without a playable move
ThirdColors ==
    << <<"green" , "yellow", "blue"  , "purple", "yellow", "blue"  , "green" , "purple">>,
       <<"yellow", "blue"  , "red"   , "orange", "blue"  , "green" , "yellow", "orange">>,
       <<"orange", "green" , "yellow", "green" , "red"   , "yellow", "orange", "blue">>,
       <<"purple", "green" , "yellow", "orange", "red"   , "purple", "red"   , "yellow">>,
       <<"red"   , "blue"  , "green" , "yellow", "blue"  , "orange", "yellow", "green">>,
       <<"blue"  , "orange", "purple", "yellow", "green" , "red"   , "blue"  , "orange">>,
       <<"green" , "red"   , "blue"  , "red"   , "purple", "blue"  , "orange", "red">>,
       <<"yellow", "purple", "purple", "red"   , "blue"  , "orange", "purple", "red">> >>

\* a board the generator returns on which the swap (4,2)-(4,3) makes a run of
\* five in column 3, which leaves a bomb, and can end on a board on which no
\* swap makes a run
FourthColors ==
    << <<"orange", "blue",   "green",  "red",    "orange", "green",  "red",    "yellow">>,
       <<"red",    "purple", "orange", "yellow", "blue",   "blue",   "green",  "orange">>,
       <<"blue",   "blue",   "yellow", "red",    "yellow", "red",    "purple", "red">>,
       <<"yellow", "orange", "purple", "red",    "orange", "green",  "orange", "yellow">>,
       <<"purple", "blue",   "red",    "yellow", "blue",   "blue",   "yellow", "orange">>,
       <<"purple", "orange", "blue",   "red",    "green",  "yellow", "green",  "purple">>,
       <<"orange", "red",    "green",  "red",    "green",  "blue",   "orange", "green">>,
       <<"green",  "purple", "blue",   "orange", "red",    "yellow", "red",    "blue">> >>

\* the board of StripeTape: no swap on it makes a run
StripeColors ==
    [r \in 1 .. BOARD_SIZE |-> [c \in 1 .. BOARD_SIZE |->
        randomColor({}, StripeTape[(r - 1) * BOARD_SIZE + c])]]

\* boards without a playable move, or one swap away from one, that the
\* generator returns in one run
MaxRareBoards == 1

\* generateInitialBoard by its outcomes: boards the generator returns, every
\* tile with a new id.  Runs that start with gen.pc = "rare" also see, in
\* their first MaxRareBoards generations, the outcomes that lead to a board
\* without a playable move; runs that start with gen.pc = "long" see the
\* outcome on which a swap makes a run of five.
generateInitialBoard(id0) ==
    {[r \in Idx |-> [c \in Idx |->
        createCandy(colors[r + 1][c + 1], id0 + r * BOARD_SIZE + c)]] :
            colors \in {BaseColors, SecondColors}
                       \cup (IF /\ gen.pc = "rare"
                                /\ id0 < FirstFreeId + MaxRareBoards * BOARD_SIZE * BOARD_SIZE
                             THEN {ThirdColors, StripeColors} ELSE {})
                       \cup (IF /\ gen.pc = "long"
                                /\ id0 < FirstFreeId + MaxRareBoards * BOARD_SIZE * BOARD_SIZE
                             THEN {FourthColors} ELSE {})}

\* what loadPersistedEngineState returns after a session that was left idle
\* with a bomb on the board, one move left and 22 of the 24 tiles of the
\* first mission collected
PersistedState ==
    [status |-> "idle",
     board |-> WithBomb(BaseBoard, [row |-> 4, col |-> 2]),
     missions |-> [i \in DOMAIN missionFromIndex(0) |->
                     [missionFromIndex(0)[i] EXCEPT !.scoreProgress = 400,
                                                    !.progress = 22]],
     missionIndex |-> 0,
     movesLeft |-> 1,
     score |-> 400,
     reshuffles |-> STARTING_RESHUFFLES]

\* what loadPersistedEngineState returns for a run that has come to the last
\* mission of MISSION_SEQUENCE: two moves left, one tile short of the target
\* and 10 points short of the next score milestone
PersistedLastMission ==
    LET last == Len(MISSION_SEQUENCE) - 1
    IN  [status |-> "idle",
         board |-> WithBomb(BaseBoard, [row |-> 4, col |-> 2]),
         missions |-> [i \in DOMAIN missionFromIndex(last) |->
                         [missionFromIndex(last)[i] EXCEPT
                             !.scoreProgress = 2490,
                             !.progress = missionFromIndex(last)[i].target - 1]],
         missionIndex |-> last,
         movesLeft |-> 2,
         score |-> 30000,
         reshuffles |-> STARTING_RESHUFFLES]

\* what loadPersistedEngineState returns after a session that was left while
\* a swap was being resolved: the persist effect writes the status and the
\* board at every change, so also the snapshot with status resolving and the
\* swapped board.  The hook starts from it only for the first render of the
\* page, whose effects lock the engine at once (MountEffects)
PersistedMidTurn ==
    [status |-> "resolving",
     board |-> swapCandies(BaseBoard, [row |-> 4, col |-> 2], [row |-> 4, col |-> 3]),
     missions |-> missionFromIndex(0),
     missionIndex |-> 0,
     movesLeft |-> missionFromIndex(0)[1].baseMoves,
     score |-> 0,
     reshuffles |-> STARTING_RESHUFFLES]

\* useState initial values: persisted?.x ?? default
InitTurn ==
    /\ \/ /\ status = "locked"
          /\ board = BaseBoard
          /\ missions = missionFromIndex(0)
          /\ missionIndex = (IF Len(missionFromIndex(0)) > 0 THEN 0 ELSE Len(MISSION_SEQUENCE))
          /\ movesLeft = (IF Len(missionFromIndex(0)) > 0
                          THEN missionFromIndex(0)[1].baseMoves ELSE BASE_MOVE_LIMIT)
          /\ score = 0
          /\ reshuffles = Min(MAX_RESHUFFLES_PER_RUN, STARTING_RESHUFFLES)
       \/ \E persisted \in {PersistedState, PersistedLastMission} :
          /\ status = persisted.status
          /\ board = persisted.board
          /\ missions = persisted.missions
          /\ missionIndex = persisted.missionIndex
          /\ movesLeft = persisted.movesLeft
          /\ score = persisted.score
          /\ reshuffles = Min(MAX_RESHUFFLES_PER_RUN, persisted.reshuffles)
    /\ selected = None
    /\ lastInvalidSwap = None
    /\ handlers = {}
    /\ lastAction = "none"
    /\ turns = 0
    /\ nextId = FirstFreeId
    /\ EngineOff
    /\ GenOff
    /\ ChainOff
    /\ PageOff

\* unlockGame -> startSession -> resetState
unlockGame ==
    /\ status = "locked"
    /\ \E generated \in generateInitialBoard(nextId) : board' = generated
    /\ nextId' = nextId + BOARD_SIZE * BOARD_SIZE
    /\ missions' = missionFromIndex(0)
    /\ missionIndex' = (IF Len(missionFromIndex(0)) > 0 THEN 0 ELSE Len(MISSION_SEQUENCE))
    /\ movesLeft' = (IF Len(missionFromIndex(0)) > 0
                     THEN missionFromIndex(0)[1].baseMoves ELSE BASE_MOVE_LIMIT)
    /\ score' = 0
    /\ selected' = None
    /\ lastInvalidSwap' = None
    /\ reshuffles' = Min(MAX_RESHUFFLES_PER_RUN, STARTING_RESHUFFLES)
    /\ status' = "idle"
    /\ lastAction' = "unlock"
    /\ UNCHANGED <<handlers, turns, engineVars, gen, chain, page>>

\* the guard of handleCandyClick
Clickable == status \notin {"locked", "resolving", "won", "lost"}

\* if (!selected) setSelected(position)
Select(position) ==
    /\ Clickable
    /\ selected = None
    /\ selected' = position
    /\ lastAction' = "select"
    /\ UNCHANGED <<status, board, movesLeft, score, missions, missionIndex, reshuffles,
                   lastInvalidSwap, handlers, turns, nextId, engineVars, gen, chain, page>>

\* the selected cell again: setSelected(null)
Deselect(position) ==
    /\ Clickable
    /\ selected # None
    /\ selected.row = position.row /\ selected.col = position.col
    /\ selected' = None
    /\ lastAction' = "deselect"
    /\ UNCHANGED <<status, board, movesLeft, score, missions, missionIndex, reshuffles,
                   lastInvalidSwap, handlers, turns, nextId, engineVars, gen, chain, page>>

\* a cell that is not adjacent: setSelected(position)
Reselect(position) ==
    /\ Clickable
    /\ selected # None
    /\ ~(selected.row = position.row /\ selected.col = position.col)
    /\ ~areAdjacent(selected, position)
    /\ selected' = position
    /\ lastAction' = "reselect"
    /\ UNCHANGED <<status, board, movesLeft, score, missions, missionIndex, reshuffles,
                   lastInvalidSwap, handlers, turns, nextId, engineVars, gen, chain, page>>

\* what the rest of the handler keeps after its first await: the values its
\* closure captured and the result. score0 and reshuffles0 are not read by
\* the code; they record the values at the swap.
Pending(at, position, result) ==
    [pc |-> at, k |-> 1, a |-> selected, b |-> position, previousBoard |-> board,
     steps |-> result.steps, points |-> result.points,
     extraMoveReward |-> result.extraMoveReward,
     missions |-> missions, missionIndex |-> missionIndex, movesLeft |-> movesLeft,
     score0 |-> score, reshuffles0 |-> reshuffles]

\* the cell the bomb lay on before the swap
BombAtOldCell(b, from, to) ==
    IF b[from.row][from.col].special = "bomb" THEN from ELSE to

\* const bombAt = a?.special === 'bomb' ? position : selected, on the board
\* before the swap: the cell the bomb lies on after it
BombAt(b, from, to) ==
    IF b[from.row][from.col].special = "bomb" THEN to ELSE from

\* an adjacent cell: the swap, its resolution, and the code up to the first await
Swap(position) ==
    /\ Clickable
    /\ selected # None
    /\ ~(selected.row = position.row /\ selected.col = position.col)
    /\ areAdjacent(selected, position)
    /\ turns < MaxTurns
    /\ LET swapped == swapCandies(board, selected, position)
           a == board[selected.row][selected.col]
           b == board[position.row][position.col]
           bombAt == BombAt(board, selected, position)
           results == IF a.special = "bomb" \/ b.special = "bomb"
                      THEN resolveWithInitialRemoval(swapped,
                                                     getDetonationKeys(swapped, bombAt), nextId)
                      ELSE resolveMatches(swapped, nextId)
       IN  \E result \in results :
             /\ nextId' = result.nextId
             /\ board' = swapped
             /\ IF Len(result.steps) = 0
                THEN /\ lastInvalidSwap' = [a |-> selected, b |-> position]
                     /\ handlers' = handlers \cup {Pending("revert", position, result)}
                ELSE /\ lastInvalidSwap' = lastInvalidSwap
                     /\ handlers' = handlers \cup {Pending("pop", position, result)}
    /\ status' = "resolving"
    /\ selected' = None
    /\ turns' = turns + 1
    /\ lastAction' = "swap"
    /\ UNCHANGED <<movesLeft, score, missions, missionIndex, reshuffles, engineVars, gen, chain, page>>

handleCandyClick(position) ==
    \/ Select(position)
    \/ Deselect(position)
    \/ Reselect(position)
    \/ Swap(position)

\* invalid swap, after sleep(MATCH_ANIMATION_MS): setBoard(previousBoard)
Revert(h) ==
    /\ h.pc = "revert"
    /\ board' = h.previousBoard
    /\ handlers' = (handlers \ {h}) \cup {[h EXCEPT !.pc = "settle"]}
    /\ lastAction' = "revert"
    /\ UNCHANGED <<status, selected, movesLeft, score, missions, missionIndex, reshuffles,
                   lastInvalidSwap, turns, nextId, engineVars, gen, chain, page>>

\* invalid swap, after sleep(FALL_ANIMATION_MS)
InvalidDone(h) ==
    /\ h.pc = "settle"
    /\ lastInvalidSwap' = None
    /\ status' = "idle"
    /\ handlers' = handlers \ {h}
    /\ lastAction' = "invalid"
    /\ UNCHANGED <<board, selected, movesLeft, score, missions, missionIndex, reshuffles,
                   turns, nextId, engineVars, gen, chain, page>>

\* step k, after sleep(MATCH_ANIMATION_MS): setBoard(step.board)
Pop(h) ==
    /\ h.pc = "pop"
    /\ board' = h.steps[h.k].board
    /\ handlers' = (handlers \ {h}) \cup {[h EXCEPT !.pc = "fall"]}
    /\ lastAction' = "pop"
    /\ UNCHANGED <<status, selected, movesLeft, score, missions, missionIndex, reshuffles,
                   lastInvalidSwap, turns, nextId, engineVars, gen, chain, page>>

\* step k, after sleep(waitMs), when another step follows
NextStep(h) ==
    /\ h.pc = "fall"
    /\ h.k < Len(h.steps)
    /\ handlers' = (handlers \ {h}) \cup {[h EXCEPT !.pc = "pop", !.k = h.k + 1]}
    /\ lastAction' = "step"
    /\ UNCHANGED <<status, board, selected, movesLeft, score, missions, missionIndex,
                   reshuffles, lastInvalidSwap, turns, nextId, engineVars, gen, chain, page>>

\* steps[i].removedCountByColor summed per colour
TotalCounts(stepList) ==
    [color \in Colors |->
        SumTo([i \in DOMAIN stepList |->
                 IF color \in DOMAIN stepList[i].removedCountByColor
                 THEN stepList[i].removedCountByColor[color] ELSE 0],
              Len(stepList))]

\* the code from "Build color removal counts" to setStatus, on the values
\* the handler captured
\* nextMoves of the end of a turn
NextMoves(left, bonusMoves, extra) == left - 1 + bonusMoves + extra

Settlement(h) ==
    LET totalCounts == TotalCounts(h.steps)
        updatedMissions ==
            [i \in DOMAIN h.missions |->
                LET m == h.missions[i]
                    inc == totalCounts[m.color]
                IN  IF inc <= 0 THEN m
                    ELSE [m EXCEPT !.progress = Min(m.target, m.progress + inc)]]
        missionCompletedThisStep ==
            Len(updatedMissions) > 0 /\ updatedMissions[1].progress >= updatedMissions[1].target
        missionScoreBonus ==
            IF missionCompletedThisStep /\ h.missionIndex + 1 \in DOMAIN MISSION_SEQUENCE
            THEN MISSION_SEQUENCE[h.missionIndex + 1].target * MISSION_SCORE_MULTIPLIER
            ELSE 0
        Milestone(i) ==
            updatedMissions[i].scoreMilestone # 0 /\ updatedMissions[i].movesPerMilestone # 0
        After(i) == h.missions[i].scoreProgress + h.points
        Crossed(i) == (After(i) \div updatedMissions[i].scoreMilestone)
                      - (h.missions[i].scoreProgress \div updatedMissions[i].scoreMilestone)
        scoreMilestoneShuffles ==
            SumTo([i \in DOMAIN updatedMissions |->
                     IF Milestone(i) /\ Crossed(i) > 0
                     THEN Crossed(i) * updatedMissions[i].movesPerMilestone ELSE 0],
                  Len(updatedMissions))
        Scored(i) == IF Milestone(i)
                     THEN [updatedMissions[i] EXCEPT !.scoreProgress = After(i)]
                     ELSE updatedMissions[i]
        Rewarded(i) ==
            /\ ~Scored(i).rewardClaimed
            /\ Scored(i).progress >= Scored(i).target
            /\ (~h.missions[i].rewardClaimed \/ h.missions[i].progress < Scored(i).target)
        bonusMoves ==
            SumTo([i \in DOMAIN updatedMissions |->
                     IF Rewarded(i) THEN Scored(i).reward.amount ELSE 0],
                  Len(updatedMissions))
        mapped ==
            [i \in DOMAIN updatedMissions |->
                IF Rewarded(i) \/ (h.missions[i].rewardClaimed /\ ~Scored(i).rewardClaimed)
                THEN [Scored(i) EXCEPT !.rewardClaimed = TRUE]
                ELSE Scored(i)]
        nextMissionIndex ==
            IF missionCompletedThisStep THEN h.missionIndex + 1 ELSE h.missionIndex
        finalMissions ==
            IF missionCompletedThisStep THEN missionFromIndex(h.missionIndex + 1) ELSE mapped
        nextMoves == NextMoves(h.movesLeft, bonusMoves, h.extraMoveReward)
        didWin == missionsCompleted(finalMissions)
        didLose == ~didWin /\ nextMoves <= 0
        nextM == missionFromIndex(nextMissionIndex)
        finalMoves ==
            IF missionCompletedThisStep /\ Len(nextM) > 0 /\ nextM[1].baseMoves # 0
            THEN Max(nextMoves, nextM[1].baseMoves)
            ELSE nextMoves
    IN  [missions |-> finalMissions,
         missionIndex |-> nextMissionIndex,
         scoreMilestoneShuffles |-> scoreMilestoneShuffles,
         movesLeft |-> finalMoves,
         gain |-> h.points + missionScoreBonus,
         status |-> IF didWin THEN "won" ELSE IF didLose THEN "lost" ELSE "idle"]

\* the last step, after sleep(waitMs): the rest of the handler
Finish(h) ==
    /\ h.pc = "fall"
    /\ h.k = Len(h.steps)
    /\ IF ~hasPlayableMove(h.steps[h.k].board)
       THEN /\ \E generated \in generateInitialBoard(nextId) : board' = generated
            /\ nextId' = nextId + BOARD_SIZE * BOARD_SIZE
            /\ selected' = None
       ELSE UNCHANGED <<board, nextId, selected>>
    /\ LET end == Settlement(h)
       IN  /\ missions' = end.missions
           /\ missionIndex' = end.missionIndex
           /\ reshuffles' = (IF end.scoreMilestoneShuffles > 0
                             THEN Min(MAX_RESHUFFLES_PER_RUN,
                                      reshuffles + end.scoreMilestoneShuffles)
                             ELSE reshuffles)
           /\ movesLeft' = end.movesLeft
           /\ score' = score + end.gain
           /\ status' = end.status
    /\ lastInvalidSwap' = None
    /\ handlers' = handlers \ {h}
    /\ lastAction' = "finish"
    /\ UNCHANGED <<turns, engineVars, gen, chain, page>>

\* a player reshuffle that leaves the token count as it is
useReshuffleKeepsToken ==
    /\ status \notin {"locked", "lost", "won"}
    /\ reshuffles > 0
    /\ \E generated \in generateInitialBoard(nextId) : board' = generated
    /\ nextId' = nextId + BOARD_SIZE * BOARD_SIZE
    /\ selected' = None
    /\ status' = "idle"
    /\ lastAction' = "reshuffle"
    /\ UNCHANGED <<reshuffles, movesLeft, score, missions, missionIndex, lastInvalidSwap,
                   handlers, turns, engineVars, gen, chain, page>>

useReshuffle ==
    /\ status \notin {"locked", "lost", "won"}
    /\ reshuffles > 0
    /\ reshuffles' = reshuffles - 1
    /\ \E generated \in generateInitialBoard(nextId) : board' = generated
    /\ nextId' = nextId + BOARD_SIZE * BOARD_SIZE
    /\ selected' = None
    /\ status' = "idle"
    /\ lastAction' = "reshuffle"
    /\ UNCHANGED <<movesLeft, score, missions, missionIndex, lastInvalidSwap, handlers,
                   turns, engineVars, gen, chain, page>>

\* the effect charging a reshuffle token for the board it replaces
autoReshufflePaid ==
    /\ status = "idle"
    /\ ~hasPlayableMove(board)
    /\ \E generated \in generateInitialBoard(nextId) : board' = generated
    /\ nextId' = nextId + BOARD_SIZE * BOARD_SIZE
    /\ selected' = None
    /\ reshuffles' = Max(0, reshuffles - 1)
    /\ lastAction' = "auto"
    /\ UNCHANGED <<status, movesLeft, score, missions, missionIndex,
                   lastInvalidSwap, handlers, turns, engineVars, gen, chain, page>>

\* the effect on [board, status]: an idle board without a playable move is
\* replaced
autoReshuffle ==
    /\ status = "idle"
    /\ ~hasPlayableMove(board)
    /\ \E generated \in generateInitialBoard(nextId) : board' = generated
    /\ nextId' = nextId + BOARD_SIZE * BOARD_SIZE
    /\ selected' = None
    /\ lastAction' = "auto"
    /\ UNCHANGED <<status, movesLeft, score, missions, missionIndex, reshuffles,
                   lastInvalidSwap, handlers, turns, engineVars, gen, chain, page>>

NextTurn ==
    \/ unlockGame
    \/ \E position \in ClickCells : handleCandyClick(position)
    \/ \E h \in handlers : Revert(h)
    \/ \E h \in handlers : InvalidDone(h)
    \/ \E h \in handlers : Pop(h)
    \/ \E h \in handlers : NextStep(h)
    \/ \E h \in handlers : Finish(h)
    \/ useReshuffle

\* Every idle board SpecTurn reaches has a playable move, so the effect
\* autoReshuffle has nothing to do there and is not among its actions.
SpecTurn == InitTurn /\ [][NextTurn]_vars

\* a handler in flight continues when its timer fires
HandlerStep ==
    \E h \in handlers : Revert(h) \/ InvalidDone(h) \/ Pop(h) \/ NextStep(h) \/ Finish(h)

\* a handler is at its last wait
AtLastWait == \E h \in handlers : h.pc = "fall" /\ h.k = Len(h.steps)

\* The same runs with the timers of the handlers firing: weak fairness of
\* every handler step.  The last conjunct is WF_vars(\E h \in handlers :
\* Finish(h)), with the enabling condition written as the state predicate
\* AtLastWait and the step recognised by the lastAction it leaves.
SpecTurnLive ==
    /\ SpecTurn
    /\ WF_vars(\E h \in handlers : Revert(h))
    /\ WF_vars(\E h \in handlers : InvalidDone(h))
    /\ WF_vars(\E h \in handlers : Pop(h))
    /\ WF_vars(\E h \in handlers : NextStep(h))
    /\ ([]<>(~AtLastWait) \/ []<><<lastAction' = "finish">>_vars)

----------------------------------------------------------------------------
(* useGameEngine with a second swap made while the first is being resolved *)

\* the closure of handleCandyClick for a swap of the cells a and b made in
\* the hook state start (the fields of Pending)
PendingFrom(start, at, a, b, result) ==
    [pc |-> at, k |-> 1, a |-> a, b |-> b, previousBoard |-> start.board,
     steps |-> result.steps, points |-> result.points,
     extraMoveReward |-> result.extraMoveReward,
     missions |-> start.missions, missionIndex |-> start.missionIndex,
     movesLeft |-> start.movesLeft,
     score0 |-> start.score, reshuffles0 |-> start.reshuffles]

\* A run that has come to its last move (PersistedState), in which the
\* player has swapped the bomb at (4,2) with (4,3) and, during the first wait
\* of that handler, has pressed Reshuffle: useReshuffle has taken the token,
\* replaced the board and set the status to idle; the handler of the swap is
\* still waiting.  turns counts the swaps made from here on.
InitOverlap ==
    /\ EngineOff
    /\ GenOff
    /\ ChainOff
    /\ PageOff
    /\ LET start == PersistedState
           from == [row |-> 4, col |-> 2]
           to == [row |-> 4, col |-> 3]
           swapped == swapCandies(start.board, from, to)
       IN  \E result \in resolveWithInitialRemoval(
                             swapped,
                             getDetonationKeys(swapped, BombAt(start.board, from, to)),
                             FirstFreeId) :
             /\ Len(result.steps) > 0
             /\ handlers = {PendingFrom(start, "pop", from, to, result)}
             /\ \E generated \in generateInitialBoard(result.nextId) : board = generated
             /\ nextId = result.nextId + BOARD_SIZE * BOARD_SIZE
             /\ missions = start.missions
             /\ missionIndex = start.missionIndex
             /\ movesLeft = start.movesLeft
             /\ score = start.score
             /\ reshuffles = start.reshuffles - 1
    /\ status = "idle"
    /\ selected = None
    /\ lastInvalidSwap = None
    /\ lastAction = "reshuffle"
    /\ turns = 0

NextOverlap ==
    \/ \E position \in ClickCells : handleCandyClick(position)
    \/ \E h \in handlers : Revert(h)
    \/ \E h \in handlers : InvalidDone(h)
    \/ \E h \in handlers : Pop(h)
    \/ \E h \in handlers : NextStep(h)
    \/ \E h \in handlers : Finish(h)

SpecOverlap == InitOverlap /\ [][NextOverlap]_vars

----------------------------------------------------------------------------
(* useGameEngine with the boards that have no playable move                *)

\* the cells a player clicks in these runs
RareClickCells ==
    {[row |-> 4, col |-> 2], [row |-> 4, col |-> 3], [row |-> 4, col |-> 4]}

\* useState initial values with nothing persisted
InitRare ==
    /\ status = "locked"
    /\ board = BaseBoard
    /\ missions = missionFromIndex(0)
    /\ missionIndex = (IF Len(missionFromIndex(0)) > 0 THEN 0 ELSE Len(MISSION_SEQUENCE))
    /\ movesLeft = (IF Len(missionFromIndex(0)) > 0
                    THEN missionFromIndex(0)[1].baseMoves ELSE BASE_MOVE_LIMIT)
    /\ score = 0
    /\ reshuffles = Min(MAX_RESHUFFLES_PER_RUN, STARTING_RESHUFFLES)
    /\ selected = None
    /\ lastInvalidSwap = None
    /\ handlers = {}
    /\ lastAction = "none"
    /\ turns = 0
    /\ nextId = FirstFreeId
    /\ EngineOff
    /\ gen = [pc |-> "rare"]
    /\ ChainOff
    /\ PageOff

\* The swaps among RareClickCells cascade in one step on every board of these
\* runs, so no handler waits for a second step and NextStep is not among the
\* actions.
NextRare ==
    \/ unlockGame
    \/ autoReshuffle
    \/ \E position \in RareClickCells : handleCandyClick(position)
    \/ \E h \in handlers : Revert(h)
    \/ \E h \in handlers : InvalidDone(h)
    \/ \E h \in handlers : Pop(h)
    \/ \E h \in handlers : Finish(h)
    \/ useReshuffle

\* Timers fire and effects run: a pending effect or handler step is not
\* postponed for ever.  These are WF_vars(autoReshuffle) and
\* WF_vars(HandlerStep), with the enabling conditions written as state
\* predicates and the steps recognised by the lastAction they leave.
SpecRare ==
    /\ InitRare
    /\ [][NextRare]_vars
    /\ ([]<>(~(status = "idle" /\ ~hasPlayableMove(board)))
          \/ []<><<lastAction' = "auto">>_vars)
    /\ ([]<>(handlers = {})
          \/ []<><<lastAction' \in {"revert", "invalid", "pop", "step", "finish"}>>_vars)

----------------------------------------------------------------------------
(* useGameEngine on a board where a swap leaves a bomb                     *)

\* useState initial values with nothing persisted; the generator of these
\* runs can return FourthColors
InitBomb ==
    /\ status = "locked"
    /\ board = BaseBoard
    /\ missions = missionFromIndex(0)
    /\ missionIndex = (IF Len(missionFromIndex(0)) > 0 THEN 0 ELSE Len(MISSION_SEQUENCE))
    /\ movesLeft = (IF Len(missionFromIndex(0)) > 0
                    THEN missionFromIndex(0)[1].baseMoves ELSE BASE_MOVE_LIMIT)
    /\ score = 0
    /\ reshuffles = Min(MAX_RESHUFFLES_PER_RUN, STARTING_RESHUFFLES)
    /\ selected = None
    /\ lastInvalidSwap = None
    /\ handlers = {}
    /\ lastAction = "none"
    /\ turns = 0
    /\ nextId = FirstFreeId
    /\ EngineOff
    /\ gen = [pc |-> "long"]
    /\ ChainOff
    /\ PageOff

\* The swaps among RareClickCells cascade in one step on every board of these
\* runs, and every idle board has a swap that makes a run, so NextStep and
\* autoReshuffle are not among the actions.
NextBomb ==
    \/ unlockGame
    \/ \E position \in RareClickCells : handleCandyClick(position)
    \/ \E h \in handlers : Revert(h)
    \/ \E h \in handlers : InvalidDone(h)
    \/ \E h \in handlers : Pop(h)
    \/ \E h \in handlers : Finish(h)
    \/ useReshuffle

SpecBomb == InitBomb /\ [][NextBomb]_vars

----------------------------------------------------------------------------
(* hasPlayableMove on its own: one call per board                          *)

\* the corner of the board in which one tile is recoloured
RecolourCells == {p \in Positions : p.row < 4 /\ p.col < 4}

\* the boards asked about: the generator's boards, and the striped board
\* with one tile of another colour
MoveInputs ==
    {[r \in Idx |-> [c \in Idx |-> createCandy(colors[r + 1][c + 1], r * BOARD_SIZE + c + 1)]] :
        colors \in {BaseColors, SecondColors, ThirdColors, StripeColors}}
    \cup {[r \in Idx |-> [c \in Idx |->
              createCandy(IF r = p.row /\ c = p.col THEN CANDY_COLORS[k]
                          ELSE StripeColors[r + 1][c + 1],
                          r * BOARD_SIZE + c + 1)]] :
            p \in RecolourCells, k \in DOMAIN CANDY_COLORS}

InitMove ==
    /\ gen \in {[pc |-> "ask", board |-> b] : b \in MoveInputs}
    /\ ChainOff
    /\ PageOff
    /\ nextId = FirstFreeId
    /\ EngineOff
    /\ HookOff

\* the call and its return value
AskPlayableMove ==
    /\ gen.pc = "ask"
    /\ gen' = [pc |-> "answer", board |-> gen.board, playable |-> hasPlayableMove(gen.board)]
    /\ UNCHANGED <<engineVars, nextId, hookVars, chain, page>>

SpecMove == InitMove /\ [][AskPlayableMove]_vars

----------------------------------------------------------------------------
(* SweetChainEconomy: one action per external call.  A call that reverts   *)
(* leaves the storage as it was.  Amounts are in wei.  The constructor's   *)
(* minEntryFee of 0.0001 ether lies outside the integers of the model, so  *)
(* the runs begin after the owner's setEntryFeeParams(10, 50).  The owner  *)
(* of Ownable does not change.  A callee of a transfer accepts or rejects  *)
(* the ether and does not call back.                                       *)

\* the 10_000 of every share in basis points
BPS_DENOMINATOR == 10000

\* runs entered in one behaviour that begins at the deployment
MaxRuns == 1

\* runs entered before a behaviour that begins with a reserved pool
PoolRuns == 6

\* receive() is called while the ether paid in stays at or below this
MaxPool == 4100

Players == {"alice", "bob"}

\* msg.value of enterRun
Payments == {9, 15, 25}

\* msg.value of receive()
TopUps == {4000}

\* the score argument of finalizeRun
Scores == {9999, 20000}

\* arguments of setEntryFeeParams
FeeParams == {<<10, 50>>, <<0, 50>>, <<10, 501>>}

\* arguments of setFeeSplit
FeeSplits == {<<10000, 0>>, <<5000, 4000>>}

\* the tiers of the reserved pool: a tenth and a fifth of the pool
PoolTiers == [scores |-> <<10000, 20000>>, bps |-> <<1000, 2000>>]

\* arguments of updateRewardTiers that it refuses
TierUpdates ==
    {[scores |-> <<20000, 10000>>, bps |-> <<40, 80>>],
     [scores |-> <<10000>>, bps |-> <<2001>>],
     [scores |-> <<10000>>, bps |-> <<40, 80>>],
     [scores |-> <<>>, bps |-> <<>>]}

\* RunInfo of a run id that was never written
NoRun == [player |-> "zero", status |-> "Active", score |-> 0, reward |-> 0]

\* runs[runId]
RunAt(c, runId) == IF runId \in DOMAIN c.runs THEN c.runs[runId] ELSE NoRun

\* the storage after the constructor and setEntryFeeParams(10, 50), no ether
\* held; received[a] is the ether the contract has sent to a
Deployed ==
    [pc |-> "deployed",
     paused |-> FALSE,
     minEntryFee |-> 10,
     feeBps |-> 50,
     poolBps |-> 7000,
     projectBps |-> 3000,
     scoreKeeper |-> "keeper",
     projectWallet |-> "wallet",
     tierScores |-> <<10000, 20000, 40000, 80000>>,
     tierBps |-> <<40, 80, 150, 400>>,
     totalPool |-> 0,
     reservedPool |-> 0,
     totalDistributed |-> 0,
     totalEntries |-> 0,
     lastRunId |-> 0,
     runs |-> <<>>,
     playerRuns |-> [p \in Players |-> <<>>],
     balance |-> 0,
     received |-> [a \in {"wallet", "owner", "alice", "bob", "keeper"} |-> 0],
     call |-> [op |-> "constructor", ok |-> TRUE, reason |-> ""]]

\* require(false, reason), or a panic of checked arithmetic
Reverted(reason) == [ok |-> FALSE, reason |-> reason]

Returned(c) == [ok |-> TRUE, reason |-> "", state |-> c]

\* to.call{value: amount}("") that succeeded
Send(c, to, amount) ==
    [c EXCEPT !.balance = c.balance - amount,
              !.received[to] = c.received[to] + amount]

\* the entry fee without its dynamic part
minEntryFeeOnly(c) == c.minEntryFee

currentEntryFee(c) ==
    LET dynamicFee == (c.totalPool * c.feeBps) \div BPS_DENOMINATOR
    IN  IF dynamicFee > c.minEntryFee THEN dynamicFee ELSE c.minEntryFee

\* the split that leaves the rounding remainder out of the pool
FeeSplitNoSurplus(c, value) ==
    [poolCut |-> (value * c.poolBps) \div BPS_DENOMINATOR,
     projectCut |-> (value * c.projectBps) \div BPS_DENOMINATOR,
     surplus |-> 0]

\* poolCut, projectCut and surplus of enterRun
FeeSplit(c, value) ==
    LET poolCut == (value * c.poolBps) \div BPS_DENOMINATOR
        projectCut == (value * c.projectBps) \div BPS_DENOMINATOR
    IN  [poolCut |-> poolCut, projectCut |-> projectCut,
         surplus |-> value - poolCut - projectCut]

\* whenNotPaused that lets every call through
NeverPaused(c) == TRUE

\* whenNotPaused
whenNotPaused(c) == ~c.paused

\* a modifier that lets every sender through
anySender(c, sender) == TRUE

\* onlyScoreKeeper
onlyScoreKeeper(c, sender) == sender = c.scoreKeeper \/ sender = "owner"

\* onlyOwner
onlyOwner(sender) == sender = "owner"

\* transferOk: whether projectWallet accepts the ether
enterRun(c, sender, value, transferOk) ==
    IF ~whenNotPaused(c) THEN Reverted("EnforcedPause")
    ELSE IF ~(value >= currentEntryFee(c)) THEN Reverted("Fee too low")
    ELSE LET cut == FeeSplit(c, value)
             runId == c.lastRunId + 1
         IN  IF cut.surplus < 0 THEN Reverted("Panic")
             ELSE IF cut.projectCut > 0 /\ ~transferOk THEN Reverted("Project transfer failed")
             ELSE Returned(
                    [Send([c EXCEPT !.balance = c.balance + value],
                          c.projectWallet, cut.projectCut)
                       EXCEPT !.totalPool = c.totalPool + cut.poolCut + cut.surplus,
                              !.lastRunId = runId,
                              !.runs = Append(c.runs, [player |-> sender, status |-> "Active",
                                                       score |-> 0, reward |-> 0]),
                              !.playerRuns[sender] = Append(c.playerRuns[sender], runId),
                              !.totalEntries = c.totalEntries + 1])

\* the loop of _calculateReward from tier i on
RECURSIVE TierLoop(_, _, _, _)
TierLoop(c, runScore, i, shareBps) ==
    IF i > Len(c.tierScores) THEN shareBps
    ELSE TierLoop(c, runScore, i + 1, IF runScore >= c.tierScores[i] THEN c.tierBps[i] ELSE shareBps)

\* the loop that keeps the first tier reached
RECURSIVE TierLoopFirst(_, _, _, _)
TierLoopFirst(c, runScore, i, shareBps) ==
    IF i > Len(c.tierScores) THEN shareBps
    ELSE TierLoopFirst(c, runScore, i + 1,
                       IF runScore >= c.tierScores[i] /\ shareBps = 0
                       THEN c.tierBps[i] ELSE shareBps)

\* _calculateReward with the share of the lowest tier reached
calculateRewardFirstTier(c, runScore) ==
    LET shareBps == TierLoopFirst(c, runScore, 1, 0)
    IN  IF shareBps = 0 THEN 0 ELSE (c.totalPool * shareBps) \div BPS_DENOMINATOR

_calculateReward(c, runScore) ==
    LET shareBps == TierLoop(c, runScore, 1, 0)
    IN  IF shareBps = 0 THEN 0 ELSE (c.totalPool * shareBps) \div BPS_DENOMINATOR

\* totalPool - reservedPool; the subtraction is checked
availablePool(c) == c.totalPool - c.reservedPool

finalizeRun(c, sender, runId, runScore) ==
    IF ~onlyScoreKeeper(c, sender) THEN Reverted("Not authorised")
    ELSE IF ~whenNotPaused(c) THEN Reverted("EnforcedPause")
    ELSE IF RunAt(c, runId).player = "zero" THEN Reverted("Run missing")
    ELSE IF RunAt(c, runId).status # "Active" THEN Reverted("Run not active")
    ELSE LET reward == _calculateReward(c, runScore)
         IN  IF availablePool(c) < 0 THEN Reverted("Panic")
             ELSE IF ~(reward <= availablePool(c)) THEN Reverted("Pool insufficient")
             ELSE Returned([c EXCEPT !.runs[runId].status = "Finalized",
                                     !.runs[runId].score = runScore,
                                     !.runs[runId].reward = reward,
                                     !.reservedPool = c.reservedPool + reward])

\* claimReward that pays a run again
claimRewardAgain(c, sender, runId, transferOk) ==
    LET info == RunAt(c, runId)
        payout == IF info.status = "Claimed" THEN 1 ELSE info.reward
    IN  IF info.player # sender \/ info.status = "Active" THEN Reverted("Not ready")
        ELSE IF c.totalPool < payout \/ c.reservedPool < payout THEN Reverted("Panic")
        ELSE Returned([Send(c, sender, payout)
                         EXCEPT !.runs[runId].status = "Claimed",
                                !.runs[runId].reward = 0,
                                !.reservedPool = c.reservedPool - payout,
                                !.totalPool = c.totalPool - payout,
                                !.totalDistributed = c.totalDistributed + payout])

\* transferOk: whether msg.sender accepts the ether
claimReward(c, sender, runId, transferOk) ==
    LET info == RunAt(c, runId)
        payout == info.reward
    IN  IF ~whenNotPaused(c) THEN Reverted("EnforcedPause")
        ELSE IF info.player = "zero" THEN Reverted("Run missing")
        ELSE IF info.player # sender THEN Reverted("Not run owner")
        ELSE IF info.status # "Finalized" THEN Reverted("Not ready")
        ELSE IF ~(info.reward > 0) THEN Reverted("No reward")
        ELSE IF c.reservedPool - payout < 0 \/ c.totalPool - payout < 0 THEN Reverted("Panic")
        ELSE IF ~transferOk THEN Reverted("Transfer failed")
        ELSE Returned([Send(c, sender, payout)
                         EXCEPT !.runs[runId].status = "Claimed",
                                !.runs[runId].reward = 0,
                                !.reservedPool = c.reservedPool - payout,
                                !.totalPool = c.totalPool - payout,
                                !.totalDistributed = c.totalDistributed + payout])

setEntryFeeParams(c, sender, newMinFee, newFeeBps) ==
    IF ~onlyOwner(sender) THEN Reverted("OwnableUnauthorizedAccount")
    ELSE IF ~(newMinFee > 0) THEN Reverted("Min fee zero")
    ELSE IF ~(newFeeBps <= 500) THEN Reverted("Fee too high")
    ELSE Returned([c EXCEPT !.minEntryFee = newMinFee, !.feeBps = newFeeBps])

setFeeSplit(c, sender, newPoolBps, newProjectBps) ==
    IF ~onlyOwner(sender) THEN Reverted("OwnableUnauthorizedAccount")
    ELSE IF newPoolBps + newProjectBps # BPS_DENOMINATOR THEN Reverted("Invalid split")
    ELSE Returned([c EXCEPT !.poolBps = newPoolBps, !.projectBps = newProjectBps])

setScoreKeeper(c, sender, newKeeper) ==
    IF ~onlyOwner(sender) THEN Reverted("OwnableUnauthorizedAccount")
    ELSE IF newKeeper = "zero" THEN Reverted("Keeper zero")
    ELSE Returned([c EXCEPT !.scoreKeeper = newKeeper])

setProjectWallet(c, sender, newWallet) ==
    IF ~onlyOwner(sender) THEN Reverted("OwnableUnauthorizedAccount")
    ELSE IF newWallet = "zero" THEN Reverted("Wallet zero")
    ELSE Returned([c EXCEPT !.projectWallet = newWallet])

\* the loop of updateRewardTiers from index i on: the reason of the first
\* require that fails, "" when none does
RECURSIVE TierCheck(_, _, _, _)
TierCheck(scores, bps, i, previous) ==
    IF i > Len(scores) THEN ""
    ELSE IF ~(scores[i] > previous) THEN "Scores ascending"
    ELSE IF ~(bps[i] <= 2000) THEN "Tier too large"
    ELSE TierCheck(scores, bps, i + 1, scores[i])

updateRewardTiers(c, sender, scores, bps) ==
    IF ~onlyOwner(sender) THEN Reverted("OwnableUnauthorizedAccount")
    ELSE IF ~(Len(scores) = Len(bps) /\ Len(scores) > 0) THEN Reverted("Length mismatch")
    ELSE IF TierCheck(scores, bps, 1, 0) # "" THEN Reverted(TierCheck(scores, bps, 1, 0))
    ELSE Returned([c EXCEPT !.tierScores = scores, !.tierBps = bps])

\* _pause() requires whenNotPaused
pause(c, sender) ==
    IF ~onlyOwner(sender) THEN Reverted("OwnableUnauthorizedAccount")
    ELSE IF c.paused THEN Reverted("EnforcedPause")
    ELSE Returned([c EXCEPT !.paused = TRUE])

\* _unpause() requires whenPaused
unpause(c, sender) ==
    IF ~onlyOwner(sender) THEN Reverted("OwnableUnauthorizedAccount")
    ELSE IF ~c.paused THEN Reverted("ExpectedPause")
    ELSE Returned([c EXCEPT !.paused = FALSE])

\* transferOk: whether to accepts the ether
drainPool(c, sender, to, transferOk) ==
    IF ~onlyOwner(sender) THEN Reverted("OwnableUnauthorizedAccount")
    ELSE IF to = "zero" THEN Reverted("Zero address")
    ELSE IF ~transferOk THEN Reverted("Drain failed")
    ELSE Returned([Send(c, to, c.totalPool) EXCEPT !.totalPool = 0, !.reservedPool = 0])

\* receive()
receive(c, value) ==
    Returned([c EXCEPT !.totalPool = c.totalPool + value, !.balance = c.balance + value])

\* the transaction op with this result: the storage changes when it returned
Transact(op, result) ==
    /\ chain.pc = "deployed"
    /\ chain' = [(IF result.ok THEN result.state ELSE chain)
                    EXCEPT !.call = [op |-> op, ok |-> result.ok, reason |-> result.reason]]
    /\ UNCHANGED <<engineVars, nextId, hookVars, gen, page>>

InitChain ==
    /\ chain = Deployed
    /\ nextId = FirstFreeId
    /\ EngineOff
    /\ HookOff
    /\ GenOff
    /\ PageOff

EnterRun(sender, value, transferOk) ==
    /\ chain.lastRunId < MaxRuns
    /\ Transact("enterRun", enterRun(chain, sender, value, transferOk))

FinalizeRun(sender, runId, runScore) ==
    Transact("finalizeRun", finalizeRun(chain, sender, runId, runScore))

ClaimReward(sender, runId, transferOk) ==
    Transact("claimReward", claimReward(chain, sender, runId, transferOk))

SetEntryFeeParams(sender, params) ==
    Transact("setEntryFeeParams", setEntryFeeParams(chain, sender, params[1], params[2]))

SetFeeSplit(sender, split) ==
    Transact("setFeeSplit", setFeeSplit(chain, sender, split[1], split[2]))

SetScoreKeeper(sender, newKeeper) ==
    Transact("setScoreKeeper", setScoreKeeper(chain, sender, newKeeper))

SetProjectWallet(sender, newWallet) ==
    Transact("setProjectWallet", setProjectWallet(chain, sender, newWallet))

UpdateRewardTiers(sender, tiers) ==
    Transact("updateRewardTiers", updateRewardTiers(chain, sender, tiers.scores, tiers.bps))

Pause(sender) == Transact("pause", pause(chain, sender))

Unpause(sender) == Transact("unpause", unpause(chain, sender))

DrainPool(sender, to, transferOk) ==
    Transact("drainPool", drainPool(chain, sender, to, transferOk))

\* the ether ever paid in: what the contract holds and what it has sent
EtherIn(c) ==
    c.balance + c.received["wallet"] + c.received["owner"] + c.received["keeper"]
              + c.received["alice"] + c.received["bob"]

Receive(value) ==
    /\ EtherIn(chain) + value <= MaxPool
    /\ Transact("receive", receive(chain, value))

\* addresses that call finalizeRun and claimReward
Callers == {"owner", "keeper", "alice", "bob"}

\* run ids of calls: the runs entered and one that was not
RunIds == 1 .. (MaxRuns + 1)

NextChain ==
    \/ \E sender \in Players, value \in Payments, transferOk \in BOOLEAN :
          EnterRun(sender, value, transferOk)
    \/ \E sender \in Callers, runId \in RunIds, runScore \in Scores :
          FinalizeRun(sender, runId, runScore)
    \/ \E sender \in Callers, runId \in RunIds, transferOk \in BOOLEAN :
          ClaimReward(sender, runId, transferOk)
    \/ \E sender \in {"owner", "alice"}, params \in FeeParams : SetEntryFeeParams(sender, params)
    \/ \E sender \in {"owner", "alice"}, split \in FeeSplits : SetFeeSplit(sender, split)
    \/ \E sender \in {"owner", "alice"}, newKeeper \in {"bob", "zero"} :
          SetScoreKeeper(sender, newKeeper)
    \/ \E sender \in {"owner", "alice"}, newWallet \in {"wallet", "zero"} :
          SetProjectWallet(sender, newWallet)
    \/ \E sender \in {"owner", "alice"}, tiers \in TierUpdates : UpdateRewardTiers(sender, tiers)
    \/ \E sender \in {"owner", "alice"} : Pause(sender)
    \/ \E sender \in {"owner", "alice"} : Unpause(sender)
    \/ \E sender \in {"owner", "alice"}, to \in {"owner", "zero"}, transferOk \in BOOLEAN :
          DrainPool(sender, to, transferOk)
    \/ \E value \in TopUps : Receive(value)

SpecChain == InitChain /\ [][NextChain]_vars

\* the storage of a call: as it was when the call reverted
Applied(c, result) == IF result.ok THEN result.state ELSE c

\* the player of the i-th run of the reserved pool
PoolPlayer(i) == IF i % 2 = 1 THEN "alice" ELSE "bob"

\* enterRun{value: 15} by the players in turn, for the runs i .. PoolRuns
RECURSIVE EnterAll(_, _)
EnterAll(c, i) ==
    IF i > PoolRuns THEN c
    ELSE EnterAll(Applied(c, enterRun(c, PoolPlayer(i), 15, TRUE)), i + 1)

\* finalizeRun(i, 20000) by the score keeper, for the runs i .. PoolRuns - 1
RECURSIVE FinalizeAll(_, _)
FinalizeAll(c, i) ==
    IF i > PoolRuns - 1 THEN c
    ELSE FinalizeAll(Applied(c, finalizeRun(c, "keeper", i, 20000)), i + 1)

\* the storage after the owner's updateRewardTiers(PoolTiers), PoolRuns
\* entries and the finalization of all runs but the last
PoolStart ==
    LET tiered == Applied(Deployed, updateRewardTiers(Deployed, "owner",
                                                      PoolTiers.scores, PoolTiers.bps))
        finalized == FinalizeAll(EnterAll(tiered, 1), 1)
    IN  [finalized EXCEPT !.call = [op |-> "finalizeRun", ok |-> TRUE, reason |-> ""]]

InitPool ==
    /\ chain = PoolStart
    /\ nextId = FirstFreeId
    /\ EngineOff
    /\ HookOff
    /\ GenOff
    /\ PageOff

\* run ids of calls on the reserved pool
PoolRunIds == 1 .. (PoolRuns + 1)

NextPool ==
    \/ \E sender \in Callers, runId \in PoolRunIds, runScore \in Scores :
          FinalizeRun(sender, runId, runScore)
    \/ \E sender \in Callers, runId \in PoolRunIds, transferOk \in BOOLEAN :
          ClaimReward(sender, runId, transferOk)
    \/ \E sender \in {"owner", "alice"}, to \in {"owner", "zero"}, transferOk \in BOOLEAN :
          DrainPool(sender, to, transferOk)
    \/ \E value \in TopUps : Receive(value)

SpecPool == InitPool /\ [][NextPool]_vars

----------------------------------------------------------------------------
(* HomePage: the page around the engine.  currentRun is the number of the  *)
(* run the page holds (0 for null), stored the run found in local storage  *)
(* at the mount.  paid counts the entry transactions of handleRestartPaid  *)
(* that succeeded, resets its calls of engine.resetState.  A wait of the   *)
(* handler ends by one of its outcomes; the player goes on playing during  *)
(* the waits.                                                              *)

\* entry transactions of one behaviour
MaxEntries == 2

\* what useSweetchainWallet holds when the page is ready
Wallets ==
    {[hasProvider |-> FALSE, account |-> "none", chainOk |-> FALSE],
     [hasProvider |-> TRUE, account |-> "none", chainOk |-> FALSE],
     [hasProvider |-> TRUE, account |-> "none", chainOk |-> TRUE],
     [hasProvider |-> TRUE, account |-> "alice", chainOk |-> FALSE],
     [hasProvider |-> TRUE, account |-> "alice", chainOk |-> TRUE]}

\* the state of the hook when nothing was persisted
DefaultState ==
    [status |-> "locked",
     board |-> BaseBoard,
     missions |-> missionFromIndex(0),
     missionIndex |-> (IF Len(missionFromIndex(0)) > 0 THEN 0 ELSE Len(MISSION_SEQUENCE)),
     movesLeft |-> (IF Len(missionFromIndex(0)) > 0
                    THEN missionFromIndex(0)[1].baseMoves ELSE BASE_MOVE_LIMIT),
     score |-> 0,
     reshuffles |-> STARTING_RESHUFFLES]

\* a run id, a transaction hash or a claim error that is null
NoValue == "none"

\* the run id the contract gives to the n-th entry of a behaviour, as the
\* string the page keeps
RunIdOf(n) == <<"1", "2", "3">>[n]

\* the hash of the n-th entry transaction
TxHashOf(n) == <<"0x1", "0x2", "0x3">>[n]

\* `run-${run.startedAt}`: the n-th entry starts at time n
StartKey(startedAt) == <<"run-1", "run-2", "run-3">>[startedAt]

\* getRunKey: run.runId ?? run.txHash ?? `run-${run.startedAt}`
getRunKey(run) ==
    IF run.runId # NoValue THEN run.runId
    ELSE IF run.txHash # NoValue THEN run.txHash
    ELSE StartKey(run.startedAt)

\* claimState when no claim was made
ClaimIdle == [runKey |-> NoValue, status |-> "idle", error |-> NoValue, txHash |-> NoValue]

\* runId is the runId of the current run (of the last one when there is
\* none), lastRunId is wallet.lastRunId, pending is pendingRuns, recent the
\* key of recentSettledRun, claim is claimState; claimPc, claimRun and
\* claimWallet are the position of handleClaimReward, its argument and the
\* wallet of the render of its click, claimResult how its last call ended
PageAt(at, run, stored, wallet) ==
    [pc |-> at, currentRun |-> run, stored |-> stored, wallet |-> wallet,
     captured |-> wallet, entries |-> stored, paid |-> 0, resets |-> 0, result |-> "none",
     runId |-> (IF run = 0 THEN NoValue ELSE RunIdOf(run)), lastRunId |-> NoValue,
     pending |-> << >>, recent |-> NoValue, claim |-> ClaimIdle,
     claimPc |-> "none", claimRun |-> NoValue, claimWallet |-> wallet,
     claimResult |-> "none"]

\* the first render of the page with a restored or a default engine, and a
\* page that is ready in the middle of run 1
InitPage ==
    /\ \E wallet \in Wallets :
          \/ \E stored \in {0, 1}, restored \in {DefaultState, PersistedState, PersistedMidTurn} :
                /\ page = PageAt("mount", 0, stored, wallet)
                /\ status = restored.status
                /\ board = restored.board
                /\ missions = restored.missions
                /\ missionIndex = restored.missionIndex
                /\ movesLeft = restored.movesLeft
                /\ score = restored.score
                /\ reshuffles = Min(MAX_RESHUFFLES_PER_RUN, restored.reshuffles)
          \/ /\ page = PageAt("ready", 1, 1, wallet)
             /\ status = PersistedState.status
             /\ board = PersistedState.board
             /\ missions = PersistedState.missions
             /\ missionIndex = PersistedState.missionIndex
             /\ movesLeft = PersistedState.movesLeft
             /\ score = PersistedState.score
             /\ reshuffles = Min(MAX_RESHUFFLES_PER_RUN, PersistedState.reshuffles)
    /\ selected = None
    /\ lastInvalidSwap = None
    /\ handlers = {}
    /\ lastAction = "none"
    /\ turns = 0
    /\ nextId = FirstFreeId
    /\ EngineOff
    /\ GenOff
    /\ ChainOff

lockGame ==
    /\ status' = "locked"
    /\ selected' = None
    /\ lastInvalidSwap' = None
    /\ lastAction' = "lock"
    /\ UNCHANGED <<board, movesLeft, score, missions, missionIndex, reshuffles, handlers,
                   turns, nextId, engineVars, gen, chain>>

resetState ==
    /\ \E generated \in generateInitialBoard(nextId) : board' = generated
    /\ nextId' = nextId + BOARD_SIZE * BOARD_SIZE
    /\ missions' = missionFromIndex(0)
    /\ missionIndex' = (IF Len(missionFromIndex(0)) > 0 THEN 0 ELSE Len(MISSION_SEQUENCE))
    /\ movesLeft' = (IF Len(missionFromIndex(0)) > 0
                     THEN missionFromIndex(0)[1].baseMoves ELSE BASE_MOVE_LIMIT)
    /\ score' = 0
    /\ selected' = None
    /\ lastInvalidSwap' = None
    /\ reshuffles' = Min(MAX_RESHUFFLES_PER_RUN, STARTING_RESHUFFLES)
    /\ status' = "idle"
    /\ lastAction' = "reset"
    /\ UNCHANGED <<handlers, turns, engineVars, gen, chain>>

\* the effects of the first render: the stored run is loaded, and the lock
\* effect, which still sees currentRun = null, locks the engine
MountEffects ==
    /\ page.pc = "mount"
    /\ lockGame
    /\ page' = [page EXCEPT !.pc = "ready", !.currentRun = page.stored,
                            !.runId = IF page.stored = 0 THEN NoValue
                                      ELSE RunIdOf(page.stored)]

\* the lock effect with a current run and a locked engine
UnlockEffect ==
    /\ page.pc \notin {"off", "mount"}
    /\ page.currentRun # 0
    /\ unlockGame

\* the entry gate reports a payment: handlePaymentSuccess
EntryPaid ==
    /\ page.pc = "ready"
    /\ page.currentRun = 0
    /\ page.entries < MaxEntries
    /\ page' = [page EXCEPT !.entries = page.entries + 1, !.currentRun = page.entries + 1,
                            !.wallet = [hasProvider |-> TRUE, account |-> "alice",
                                        chainOk |-> TRUE],
                            !.runId = RunIdOf(page.entries + 1),
                            !.lastRunId = RunIdOf(page.entries + 1),
                            !.recent = NoValue,
                            !.claim = ClaimIdle]
    /\ UNCHANGED <<hookVars, nextId, engineVars, gen, chain>>

\* where the handler is after a wait of wallet.enterRun that ends anywhere
AfterTxAlways(outcome) == "paid"

\* where the handler is after the waits of wallet.enterRun
AfterTx(outcome) == IF outcome = "ok" THEN "paid" ELSE "ready"

\* wallet.enterRun of the render of the click up to its first wait: it throws
\* when that render had no account
EnterCall(p) ==
    IF p.captured.account = "none"
    THEN [p EXCEPT !.pc = "ready", !.result = "not connected"]
    ELSE [p EXCEPT !.pc = "tx", !.result = "pending"]

\* handleRestartPaid up to its first wait
RestartClick ==
    /\ page.pc = "ready"
    /\ page.currentRun # 0
    /\ page.entries < MaxEntries
    /\ page' = (LET p == [page EXCEPT !.captured = page.wallet, !.result = "pending"]
                IN  IF ~p.captured.hasProvider THEN [p EXCEPT !.result = "no provider"]
                    ELSE IF p.captured.account = "none" THEN [p EXCEPT !.pc = "connect"]
                    ELSE IF ~p.captured.chainOk THEN [p EXCEPT !.pc = "switch"]
                    ELSE EnterCall(p))
    /\ UNCHANGED <<hookVars, nextId, engineVars, gen, chain>>

\* await wallet.connectWallet() ends
ConnectDone(ok) ==
    /\ page.pc = "connect"
    /\ page' = (IF ~ok THEN [page EXCEPT !.pc = "ready", !.result = "connect failed"]
                ELSE LET p == [page EXCEPT !.wallet.account = "alice",
                                           !.wallet.chainOk = TRUE]
                     IN  IF ~p.captured.chainOk THEN [p EXCEPT !.pc = "switch"]
                         ELSE EnterCall(p))
    /\ UNCHANGED <<hookVars, nextId, engineVars, gen, chain>>

\* await wallet.switchToBase() ends
SwitchDone(ok) ==
    /\ page.pc = "switch"
    /\ page' = (IF ~ok THEN [page EXCEPT !.pc = "ready", !.result = "switch failed"]
                ELSE EnterCall([page EXCEPT !.wallet.chainOk = TRUE]))
    /\ UNCHANGED <<hookVars, nextId, engineVars, gen, chain>>

\* the waits of wallet.enterRun end: the chain switch, the signature, the
\* transaction
TxDone(outcome) ==
    /\ page.pc = "tx"
    /\ page' = [page EXCEPT !.pc = AfterTx(outcome),
                            !.result = outcome,
                            !.entries = IF outcome = "ok" THEN page.entries + 1
                                        ELSE page.entries,
                            !.paid = IF outcome = "ok" THEN page.paid + 1 ELSE page.paid,
                            !.lastRunId = IF outcome = "ok" THEN RunIdOf(page.entries + 1)
                                          ELSE page.lastRunId]
    /\ UNCHANGED <<hookVars, nextId, engineVars, gen, chain>>

\* handlePaymentSuccess up to await refreshRewards()
PaymentSuccess ==
    /\ page.pc = "paid"
    /\ page' = [page EXCEPT !.pc = "refresh", !.currentRun = page.entries,
                            !.runId = RunIdOf(page.entries),
                            !.recent = NoValue,
                            !.claim = ClaimIdle]
    /\ UNCHANGED <<hookVars, nextId, engineVars, gen, chain>>

\* engine.resetState() of handleRestartPaid
RestartReset ==
    /\ page.pc = "refresh"
    /\ resetState
    /\ page' = [page EXCEPT !.pc = "ready", !.resets = page.resets + 1,
                            !.result = "restarted"]

TxOutcomes == {"ok", "switch failed", "rejected", "reverted"}

\* the cells the player selects during the waits
PageClickCells == {[row |-> 4, col |-> 2]}

NextPage ==
    \/ MountEffects
    \/ UnlockEffect
    \/ EntryPaid
    \/ RestartClick
    \/ \E ok \in BOOLEAN : ConnectDone(ok)
    \/ \E ok \in BOOLEAN : SwitchDone(ok)
    \/ \E outcome \in TxOutcomes : TxDone(outcome)
    \/ PaymentSuccess
    \/ RestartReset
    \/ \E position \in PageClickCells : Select(position)
    \/ \E position \in PageClickCells : Deselect(position)
    \/ useReshuffle

SpecPage == InitPage /\ [][NextPage]_vars

----------------------------------------------------------------------------
(* HomePage at the end of a run: the settle effect, the lock effect and    *)
(* handleClaimReward.  A behaviour begins in the middle of run 1 with the  *)
(* pending runs that loadPendingRuns found at the mount, and the player    *)
(* makes the last swap of the run.  One claim is in flight at a time.      *)

\* score of a run record without a score
NoScore == -1

\* the record handlePaymentSuccess made for the current run
CurrentRunRecord(p) ==
    [runId |-> p.runId, txHash |-> TxHashOf(p.currentRun), startedAt |-> p.currentRun,
     score |-> NoScore, status |-> "active"]

\* run after the records of sorted that start at the same time or later
InsertRun(sorted, run) ==
    LET before == SelectSeq(sorted, LAMBDA r : r.startedAt >= run.startedAt)
        after == SelectSeq(sorted, LAMBDA r : r.startedAt < run.startedAt)
    IN  before \o <<run>> \o after

\* runs.sort((a, b) => b.startedAt - a.startedAt): the sort is stable
RECURSIVE SortRuns(_)
SortRuns(runs) ==
    IF runs = << >> THEN << >>
    ELSE InsertRun(SortRuns(SubSeq(runs, 1, Len(runs) - 1)), runs[Len(runs)])

\* the keys of the records of a list
KeysOf(runs) == {getRunKey(runs[i]) : i \in DOMAIN runs}

\* the records of a list with this key
WithKey(runs, key) == SelectSeq(runs, LAMBDA r : getRunKey(r) = key)

\* the updater of the settle effect without its filter
settledRunsKeepAll(prev, settled) == SortRuns(Append(prev, settled))

\* the updater of the settle effect: the records of another key, and settled
settledRuns(prev, settled) ==
    LET runKey == getRunKey(settled)
        filtered == SelectSeq(prev, LAMBDA r : getRunKey(r) # runKey)
    IN  SortRuns(Append(filtered, settled))

\* currentRun.runId ?? wallet.lastRunId ?? currentRun.txHash ?? `run-...`
resolvedRunId(p) ==
    LET run == CurrentRunRecord(p)
    IN  IF run.runId # NoValue THEN run.runId
        ELSE IF p.lastRunId # NoValue THEN p.lastRunId
        ELSE IF run.txHash # NoValue THEN run.txHash
        ELSE StartKey(run.startedAt)

\* the record the settle effect makes of the current run
Settled(p, points) ==
    [CurrentRunRecord(p) EXCEPT !.runId = resolvedRunId(p),
                                !.score = points,
                                !.status = "claimable"]

\* the settle effect of a render with a current run and a run that has ended
SettleEffect ==
    /\ page.pc \notin {"off", "mount"}
    /\ page.currentRun # 0
    /\ status \in {"won", "lost"}
    /\ page' = [page EXCEPT !.pending = settledRuns(page.pending, Settled(page, score)),
                            !.recent = getRunKey(Settled(page, score)),
                            !.currentRun = 0]
    /\ UNCHANGED <<hookVars, nextId, engineVars, gen, chain>>

\* the lock effect of a render without a current run
LockEffect ==
    /\ page.pc \notin {"off", "mount"}
    /\ page.currentRun = 0
    /\ status # "locked"
    /\ lockGame
    /\ UNCHANGED page

\* the catch of handleClaimReward
ClaimFailed(p, message) ==
    [p EXCEPT !.claimPc = "none",
              !.claim = [runKey |-> p.claimRun, status |-> "error", error |-> message,
                         txHash |-> NoValue],
              !.claimResult = message]

\* wallet.claimReward of the render of the click up to its first wait: it
\* throws when that render had no account
ClaimCall(p) ==
    IF p.claimWallet.account = "none" THEN ClaimFailed(p, "not connected")
    ELSE [p EXCEPT !.claimPc = "tx"]

\* handleClaimReward(run) up to its first wait, for the i-th pending run.
\* The list is on display when there is no current run; a record without a
\* runId makes the handler throw before it changes any state
ClaimClick(i) ==
    /\ page.pc \notin {"off", "mount"}
    /\ page.currentRun = 0
    /\ page.claimPc = "none"
    /\ i \in DOMAIN page.pending
    /\ page.pending[i].status # "claimed"
    /\ page.pending[i].runId # NoValue
    /\ page' = (LET runKey == getRunKey(page.pending[i])
                    p == [page EXCEPT !.claimRun = runKey,
                                      !.claimWallet = page.wallet,
                                      !.claimResult = "pending",
                                      !.claim = [runKey |-> runKey, status |-> "loading",
                                                 error |-> NoValue, txHash |-> NoValue]]
                IN  IF ~p.claimWallet.hasProvider THEN ClaimFailed(p, "no provider")
                    ELSE IF p.claimWallet.account = "none" THEN [p EXCEPT !.claimPc = "connect"]
                    ELSE IF ~p.claimWallet.chainOk THEN [p EXCEPT !.claimPc = "switch"]
                    ELSE ClaimCall(p))
    /\ UNCHANGED <<hookVars, nextId, engineVars, gen, chain>>

\* await wallet.connectWallet() of the claim ends
ClaimConnectDone(ok) ==
    /\ page.claimPc = "connect"
    /\ page' = (IF ~ok THEN ClaimFailed(page, "connect failed")
                ELSE LET p == [page EXCEPT !.wallet.account = "alice",
                                           !.wallet.chainOk = TRUE]
                     IN  IF ~p.claimWallet.chainOk THEN [p EXCEPT !.claimPc = "switch"]
                         ELSE ClaimCall(p))
    /\ UNCHANGED <<hookVars, nextId, engineVars, gen, chain>>

\* await wallet.switchToBase() of the claim ends
ClaimSwitchDone(ok) ==
    /\ page.claimPc = "switch"
    /\ page' = (IF ~ok THEN ClaimFailed(page, "switch failed")
                ELSE ClaimCall([page EXCEPT !.wallet.chainOk = TRUE]))
    /\ UNCHANGED <<hookVars, nextId, engineVars, gen, chain>>

\* a claim that goes on after wallet.claimReward however it ended
ClaimReturnedAlways(outcome) == TRUE

\* wallet.claimReward returns the hash when every wait has succeeded, and
\* throws otherwise
ClaimReturned(outcome) == outcome = "ok"

\* the hash of a claim transaction
ClaimTxHash == "0xc"

\* the waits of wallet.claimReward end: the chain switch, the signature, the
\* transaction
ClaimTxDone(outcome) ==
    /\ page.claimPc = "tx"
    /\ page' = (IF ~ClaimReturned(outcome) THEN ClaimFailed(page, outcome)
                ELSE [page EXCEPT
                        !.claimPc = "none",
                        !.claimResult = outcome,
                        !.claim = [runKey |-> page.claimRun, status |-> "success",
                                   error |-> NoValue, txHash |-> ClaimTxHash],
                        !.pending = SelectSeq(page.pending,
                                              LAMBDA r : getRunKey(r) # page.claimRun),
                        !.recent = IF page.recent = page.claimRun THEN NoValue
                                   ELSE page.recent])
    /\ UNCHANGED <<hookVars, nextId, engineVars, gen, chain>>

\* a record of an earlier run that was settled and not claimed
EarlierRun ==
    [runId |-> "7", txHash |-> "0x7", startedAt |-> 0, score |-> 12000,
     status |-> "claimable"]

\* what local storage can hold for the pending runs at the mount of run 1
\* whose settled record will have this run id: nothing, an earlier run, or a
\* record of the run itself written by another window of the page
StoredPending(runId) ==
    {<< >>,
     <<EarlierRun>>,
     <<[runId |-> runId, txHash |-> TxHashOf(1), startedAt |-> 1, score |-> 100,
        status |-> "claimable"], EarlierRun>>}

\* the page in the middle of run 1, whose record has the run id of the entry
\* or none, with the wallet of this session or of a reload
InitSettle ==
    /\ EngineOff
    /\ GenOff
    /\ ChainOff
    /\ \E wallet \in Wallets, ids \in {<<RunIdOf(1), RunIdOf(1)>>, <<RunIdOf(1), NoValue>>,
                                       <<NoValue, NoValue>>} :
          LET p == [PageAt("ready", 1, 1, wallet) EXCEPT !.runId = ids[1],
                                                         !.lastRunId = ids[2]]
          IN  \E stored \in StoredPending(resolvedRunId(p)) :
                 page = [p EXCEPT !.pending = stored]
    /\ \E restored \in {PersistedState, PersistedLastMission} :
          /\ status = restored.status
          /\ board = restored.board
          /\ missions = restored.missions
          /\ missionIndex = restored.missionIndex
          /\ movesLeft = restored.movesLeft
          /\ score = restored.score
          /\ reshuffles = Min(MAX_RESHUFFLES_PER_RUN, restored.reshuffles)
    /\ selected = None
    /\ lastInvalidSwap = None
    /\ handlers = {}
    /\ lastAction = "none"
    /\ turns = 0
    /\ nextId = FirstFreeId

\* the cells the player clicks for the last swap of the run: every swap
\* among them resolves
SettleClickCells == {[row |-> 4, col |-> 2], [row |-> 4, col |-> 3], [row |-> 5, col |-> 2]}

NextSettle ==
    \/ \E position \in SettleClickCells : handleCandyClick(position)
    \/ \E h \in handlers : Pop(h)
    \/ \E h \in handlers : NextStep(h)
    \/ \E h \in handlers : Finish(h)
    \/ SettleEffect
    \/ LockEffect
    \/ \E i \in 1 .. 2 : ClaimClick(i)
    \/ \E ok \in BOOLEAN : ClaimConnectDone(ok)
    \/ \E ok \in BOOLEAN : ClaimSwitchDone(ok)
    \/ \E outcome \in TxOutcomes : ClaimTxDone(outcome)

SpecSettle == InitSettle /\ [][NextSettle]_vars

\* The same runs with the timers of the handler firing and the effects of
\* every render run: weak fairness of the handler steps, written for Finish
\* as in SpecTurnLive, and of the two effects.
SpecSettleLive ==
    /\ SpecSettle
    /\ WF_vars(\E h \in handlers : Pop(h))
    /\ WF_vars(\E h \in handlers : NextStep(h))
    /\ ([]<>(~AtLastWait) \/ []<><<lastAction' = "finish">>_vars)
    /\ WF_vars(SettleEffect)
    /\ WF_vars(LockEffect)

----------------------------------------------------------------------------
(* Vocabulary of the claims, stated on boards without the engine's scans   *)

\* the three cells starting at (r, c) in direction (dr, dc) lie on the board
\* and carry one colour
Triple(b, r, c, dr, dc) ==
    /\ r \in Idx /\ c \in Idx
    /\ r + 2 * dr \in Idx /\ c + 2 * dc \in Idx
    /\ b[r + dr][c + dc].color = b[r][c].color
    /\ b[r + 2 * dr][c + 2 * dc].color = b[r][c].color

InHorizontalRun(b, p) == \E k \in 0 .. 2 : Triple(b, p.row, p.col - k, 0, 1)
InVerticalRun(b, p) == \E k \in 0 .. 2 : Triple(b, p.row - k, p.col, 1, 0)
InRun(b, p) == InHorizontalRun(b, p) \/ InVerticalRun(b, p)
HasRun(b) == \E p \in Positions : InRun(b, p)

IsFullBoard(b) ==
    /\ DOMAIN b = Idx
    /\ \A r \in Idx :
        /\ DOMAIN b[r] = Idx
        /\ \A c \in Idx :
            /\ b[r][c] # Null
            /\ b[r][c].id > 0
            /\ b[r][c].color \in Colors
            /\ b[r][c].special \in {"none", "bomb"}

IdsOf(b) == {b[r][c].id : r \in Idx, c \in Idx}
ColumnIds(b, c) == {b[r][c].id : r \in Idx}
\* the row of the tile with this id in column c
RowOf(b, c, id) == CHOOSE r \in Idx : b[r][c].id = id

\* the board a step started from
BoardBefore(i) == IF i = 1 THEN input ELSE steps[i - 1].board

RECURSIVE SumOver(_, _)
SumOver(f, S) ==
    IF S = {} THEN 0
    ELSE LET x == CHOOSE y \in S : TRUE IN f[x] + SumOver(f, S \ {x})

\* tiles of a step's count record
CountTotal(counts) == SumOver(counts, DOMAIN counts)

\* tiles that left the board in step i
Vanished(i) == IdsOf(BoardBefore(i)) \ IdsOf(steps[i].board)

----------------------------------------------------------------------------
(* Claims                                                                  *)

C2_ReturnedBoardHasNoRun == pc = "done" => ~HasRun(Result.board)

C2_Witness == pc = "done" /\ fn = "resolveWithInitialRemoval" /\ Len(steps) >= 2

\* C3: the input after the swap, the working board after every pass and the
\* board of every cascade step is a full 8x8 grid: no empty cell is observable.
C3_BoardsAreFull ==
    /\ IsFullBoard(input)
    /\ IsFullBoard(working)
    /\ \A i \in DOMAIN steps : IsFullBoard(steps[i].board)

C3_Witness ==
    /\ pc = "done"
    /\ \E i \in DOMAIN steps : Len(steps[i].spawnedTargets) >= 9

C4_ClusterOutsideRun ==
    \E q, m \in Positions :
        /\ InRun(working, m) /\ ~InRun(working, q)
        /\ areAdjacent(q, m)
        /\ working[q.row][q.col].color = working[m.row][m.col].color

\* C5: points = 10 * (tiles that left the board, summed over the steps)
\* = 10 * (sum of every step's removedCountByColor); a tile kept as a bomb
\* stays on the board and adds nothing.
C5_PointsCountRemovedTiles ==
    /\ totalPoints = MATCH_SCORE_BASE
                     * SumTo([i \in DOMAIN steps |-> Cardinality(Vanished(i))], Len(steps))
    /\ totalPoints = MATCH_SCORE_BASE
                     * SumTo([i \in DOMAIN steps |-> CountTotal(steps[i].removedCountByColor)],
                             Len(steps))

\* a finished call in which a matched tile stayed as a bomb
C5_Witness ==
    /\ pc = "done"
    /\ totalPoints > 0
    /\ \E i \in DOMAIN steps : \E p \in Range(steps[i].positions) :
        /\ BoardBefore(i)[p.row][p.col].id \in IdsOf(steps[i].board)
        /\ BoardBefore(i)[p.row][p.col].special = "none"

\* C6: in every collapse a surviving tile stays in its column, and two
\* survivors of one column keep their vertical order.
C6_GravityKeepsOrder ==
    \A i \in DOMAIN steps : \A c \in Idx :
        LET before == BoardBefore(i)
            after == steps[i].board
            survivors == ColumnIds(before, c) \cap IdsOf(after)
        IN  /\ survivors \subseteq ColumnIds(after, c)
            /\ \A x, y \in survivors :
                RowOf(before, c, x) < RowOf(before, c, y)
                    => RowOf(after, c, x) < RowOf(after, c, y)

\* a collapse in which two tiles of one column fell
C6_Witness ==
    \E i \in DOMAIN steps : \E j, k \in DOMAIN steps[i].fallingTargets :
        /\ j # k
        /\ steps[i].fallingTargets[j].to.col = steps[i].fallingTargets[k].to.col

\* C7: after every collapse the new tiles of a column are its top k rows, k
\* the number of tiles the column lost; every survivor lies below them.
C7_SpawnOnTop ==
    \A i \in DOMAIN steps : \A c \in Idx :
        LET before == BoardBefore(i)
            after == steps[i].board
            k == Cardinality(ColumnIds(before, c) \ IdsOf(after))
        IN  \A r \in Idx :
                IF r < k
                THEN after[r][c].id \notin IdsOf(before)
                ELSE after[r][c].id \in ColumnIds(before, c)

\* a collapse that removed a tile from under a survivor
C7_Witness ==
    \E i \in DOMAIN steps :
        /\ Len(steps[i].fallingTargets) > 0
        /\ Len(steps[i].spawnedTargets) > 0

\* C8: on a board without a run resolveMatches returns no step, no points,
\* no bonus move and the input board, tile by tile.
C8_NoRunNoChange ==
    (fn = "resolveMatches" /\ ~HasRun(input))
        => /\ pc = "loop" => Len(findLineMatches(working).matchKeys) = 0
           /\ Result.steps = <<>>
           /\ Result.points = 0
           /\ Result.extraMoveReward = 0
           /\ \A r, c \in Idx : Result.board[r][c] = input[r][c]

C8_Witness == pc = "done" /\ fn = "resolveMatches" /\ ~HasRun(input)

\* |row difference| + |column difference|
Manhattan(p, q) == Abs(p.row - q.row) + Abs(p.col - q.col)

\* C9: a swap of two adjacent non-bomb tiles that makes no run resolves with
\* zero steps, and when its turn ends the board is the board before the swap,
\* the status is idle, and movesLeft, score, missions and the reshuffle
\* tokens are what they were at the swap.
C9_InvalidSwapChangesNothing ==
    [][\A h \in handlers :
         InvalidDone(h) =>
            /\ Len(h.steps) = 0
            /\ board' = h.previousBoard
            /\ status' = "idle"
            /\ movesLeft' = h.movesLeft
            /\ score' = h.score0
            /\ missions' = h.missions
            /\ reshuffles' = h.reshuffles0]_vars

\* C10: in status idle with a tile selected, a click on the selected cell
\* clears the selection and a click on a cell that is not adjacent selects
\* that cell; board, status, movesLeft, score and missions stay as they are.
C10_RejectedClickOnlyMovesSelection ==
    [][\A position \in ClickCells :
         (/\ status = "idle"
          /\ selected # None
          /\ Manhattan(selected, position) # 1
          /\ handleCandyClick(position))
            => /\ selected' = (IF position = selected THEN None ELSE position)
               /\ UNCHANGED <<board, status, movesLeft, score, missions>>]_vars

\* a click on a cell that is not adjacent has moved the selection
C10_Witness ==
    /\ lastAction = "reselect"
    /\ status = "idle"
    /\ selected # None

\* a click on the selected cell has cleared the selection
C10_Deselected ==
    /\ lastAction = "deselect"
    /\ status = "idle"
    /\ selected = None

\* the maximal runs of one colour along a row or a column, of at least
\* minLen cells: [r, c] the first cell, [dr, dc] the direction, len the length
Runs(b, minLen) ==
    {run \in [r : Idx, c : Idx, dr : {0, 1}, dc : {0, 1}, len : minLen .. BOARD_SIZE] :
        /\ run.dr + run.dc = 1
        /\ run.r + run.dr * (run.len - 1) \in Idx
        /\ run.c + run.dc * (run.len - 1) \in Idx
        /\ \A k \in 1 .. (run.len - 1) :
             b[run.r + run.dr * k][run.c + run.dc * k].color = b[run.r][run.c].color
        /\ \/ run.r - run.dr \notin Idx
           \/ run.c - run.dc \notin Idx
           \/ b[run.r - run.dr][run.c - run.dc].color # b[run.r][run.c].color
        /\ \/ run.r + run.dr * run.len \notin Idx
           \/ run.c + run.dc * run.len \notin Idx
           \/ b[run.r + run.dr * run.len][run.c + run.dc * run.len].color
                # b[run.r][run.c].color}

\* the tile on the k-th cell of a run
RunTile(b, run, k) == b[run.r + run.dr * k][run.c + run.dc * k]

\* the tile with this id on a board that holds it
TileOf(b, id) ==
    LET p == CHOOSE q \in Positions : b[q.row][q.col].id = id
    IN  b[p.row][p.col]

\* step i was made by a detection pass (step 1 of a detonation was not)
DetectionStep(i) ==
    ~(i = 1 /\ fn = "resolveWithInitialRemoval" /\ Len(initialKeys) > 0)

\* C11: for every maximal run of 5 or more cells found in a pass, the tile at
\* offset floor(len / 2) stays on the step's board with its id and colour and
\* special = bomb and is not among the removed tiles; every other tile of the
\* run leaves the board.
C11_LongRunLeavesOneBomb ==
    \A i \in DOMAIN steps :
        DetectionStep(i) =>
            \A run \in Runs(BoardBefore(i), 5) :
                \A k \in 0 .. (run.len - 1) :
                    LET tile == RunTile(BoardBefore(i), run, k)
                    IN  IF k = run.len \div 2
                        THEN /\ tile.id \in IdsOf(steps[i].board)
                             /\ TileOf(steps[i].board, tile.id).color = tile.color
                             /\ TileOf(steps[i].board, tile.id).special = "bomb"
                             /\ \A j \in DOMAIN totalRemoved : totalRemoved[j].id # tile.id
                        ELSE tile.id \notin IdsOf(steps[i].board)

\* a detection pass has found a run of 5 or more
C11_Witness ==
    \E i \in DOMAIN steps :
        DetectionStep(i) /\ Runs(BoardBefore(i), 5) # {}

\* C12: extraMoveReward is the number of maximal runs of 4 or more cells,
\* summed over the detection passes made so far; runs of 3 and the detonation
\* step add nothing.
C12_BonusCountsLongRuns ==
    extraMoveReward =
        SumTo([i \in DOMAIN steps |->
                 IF DetectionStep(i)
                 THEN Cardinality(Runs(BoardBefore(i), LONG_MATCH_LENGTH)) ELSE 0],
              Len(steps))

\* a call that began with a detonation and later found a run of 4 or more,
\* and a pass with a run of exactly 3
C12_Witness ==
    /\ pc = "done"
    /\ extraMoveReward > 0
    /\ ~DetectionStep(1)
    /\ \E i \in DOMAIN steps :
        DetectionStep(i) /\ Runs(BoardBefore(i), 3) # Runs(BoardBefore(i), 4)

\* the cells at most one row and one column away from p, on the board
Neighbourhood(p) ==
    {q \in Positions : Abs(q.row - p.row) <= 1 /\ Abs(q.col - p.col) <= 1}

Detonated == fn = "resolveWithInitialRemoval" /\ Len(initialKeys) > 0 /\ Len(steps) > 0

\* C13: a call made for a bomb swap removes in its first step exactly the
\* tiles on the clipped 3x3 neighbourhood of the cell the bomb lies on after
\* the swap, whether or not the swapped board holds a run; the positions of
\* every later step are the cells that lie in a run of the board before it.
C13_DetonationThenDetection ==
    Detonated =>
        /\ \E p \in Positions :
              /\ input[p.row][p.col].special = "bomb"
              /\ Range(steps[1].positions) = Neighbourhood(p)
              /\ Vanished(1) = {input[q.row][q.col].id : q \in Neighbourhood(p)}
        /\ \A i \in 2 .. Len(steps) :
              Range(steps[i].positions) = {q \in Positions : InRun(BoardBefore(i), q)}

\* a detonation on a board that held a run reaching outside the neighbourhood,
\* followed by a detection step
C13_Witness ==
    /\ Detonated
    /\ Len(steps) > 1
    /\ \E q \in Positions :
          /\ InRun(input, q)
          /\ input[q.row][q.col].id \in IdsOf(steps[1].board)

\* the swap of handler h involves a bomb and makes no run
BombSwapAlone(h) ==
    /\ \/ h.previousBoard[h.a.row][h.a.col].special = "bomb"
       \/ h.previousBoard[h.b.row][h.b.col].special = "bomb"
    /\ ~HasRun(swapCandies(h.previousBoard, h.a, h.b))

\* the cell of the bomb of h's swap: before the swap, after the swap
BombBefore(h) ==
    IF h.previousBoard[h.a.row][h.a.col].special = "bomb" THEN h.a ELSE h.b

BombAfter(h) ==
    IF h.previousBoard[h.a.row][h.a.col].special = "bomb" THEN h.b ELSE h.a

\* C14 as stated: a tile swapped with the adjacent bomb at (r,c), no other
\* match on the board: the positions of the first cascade step are the
\* clipped 3x3 neighbourhood of (r,c), the cell the bomb sat on.
C14_BlastAroundOldCell ==
    \A h \in handlers :
        BombSwapAlone(h) =>
            /\ Len(h.steps) > 0
            /\ Range(h.steps[1].positions) = Neighbourhood(BombBefore(h))

\* C14 amended: the positions of the first cascade step are the clipped 3x3
\* neighbourhood of the cell the bomb has moved to, the cell of the other
\* tile of the swap.
C14_BlastAroundNewCell ==
    \A h \in handlers :
        BombSwapAlone(h) =>
            /\ Len(h.steps) > 0
            /\ Range(h.steps[1].positions) = Neighbourhood(BombAfter(h))

\* the player selected a tile and clicked the bomb next to it
C14_Witness ==
    \E h \in handlers :
        /\ BombSwapAlone(h)
        /\ h.previousBoard[h.b.row][h.b.col].special = "bomb"
        /\ h.pc = "pop"

\* the status is idle and the board has no playable move
DeadIdle == status = "idle" /\ ~hasPlayableMove(board)

\* every tile of the board comes from the generation that has just been made
FreshBoard == \A p \in Positions : board[p.row][p.col].id >= nextId - BOARD_SIZE * BOARD_SIZE

\* the step ends the turn of a handler whose last cascade board has no
\* playable move
EndsOnDeadBoard ==
    /\ lastAction' = "finish"
    /\ \E h \in handlers \ handlers' :
          /\ Len(h.steps) > 0
          /\ ~hasPlayableMove(h.steps[Len(h.steps)].board)

\* C15: the step that ends a turn whose cascade finished on a board without
\* a playable move leaves a freshly generated board; an idle board without a
\* playable move is eventually replaced by a generated one; the steps that
\* replace a board for these reasons do not lower reshuffles.
C15_DeadBoardsAreReplaced ==
    /\ [][(EndsOnDeadBoard => FreshBoard' /\ reshuffles' >= reshuffles)
          /\ (lastAction' = "auto" => FreshBoard' /\ reshuffles' = reshuffles)]_vars
    /\ (DeadIdle ~> (lastAction \in {"auto", "reshuffle", "finish"} /\ FreshBoard))

\* the turn has ended on a replaced board: the cascade of the swap
\* (4,2)-(4,3) ran to a board without a playable move
C15_Witness ==
    /\ lastAction = "finish"
    /\ turns = 1
    /\ FreshBoard
    /\ nextId > FirstFreeId + 2 * BOARD_SIZE * BOARD_SIZE

\* the effect has replaced an idle board
C15_AutoWitness == lastAction = "auto" /\ FreshBoard /\ status = "idle"

\* three cells of one colour, the middle one next to both: the board has an
\* orthogonally connected same-colour component of 3 or more cells
HasCluster(b) ==
    \E p \in Positions, q \in Positions, s \in Positions :
        /\ p # s
        /\ Manhattan(p, q) = 1 /\ Manhattan(q, s) = 1
        /\ b[p.row][p.col].color = b[q.row][q.col].color
        /\ b[q.row][q.col].color = b[s.row][s.col].color

\* C16 as stated: every board generateInitialBoard returns has no
\* orthogonally connected same-colour component of 3 or more cells, for
\* every outcome of Math.random().
C16_ReturnedBoardHasNoCluster == gen.pc = "returned" => ~HasCluster(gen.board)

\* C16 amended: the returned board has no such component when the cluster
\* loop of its candidate ended on a pass that changed nothing, that is
\* before fixes reached maxFix.
C16_StableCandidateHasNoCluster ==
    gen.pc = "returned" /\ ~gen.fixedAny => ~HasCluster(gen.board)

\* a returned board whose cluster loop changed cells and then came to rest
C16_Witness == gen.pc = "returned" /\ ~gen.fixedAny /\ gen.fixes > 0

\* C17 as stated: every board generateInitialBoard returns has a playable
\* move, for every outcome of Math.random().
C17_ReturnedBoardIsPlayable == gen.pc = "returned" => hasPlayableMove(gen.board)

\* C17 amended: a board returned from inside the loop of 40 attempts has a
\* playable move; the candidate returned after the loop is not tested.
C17_TestedCandidateIsPlayable ==
    gen.pc = "returned" /\ gen.attempt < 40 => hasPlayableMove(gen.board)

\* a candidate was rejected and a later one returned by the loop
C17_Witness == gen.pc = "returned" /\ gen.attempt > 0 /\ gen.attempt < 40

\* C18: hasPlayableMove(board) is true exactly when swapping the tiles of
\* some pair of orthogonally adjacent cells gives a board with a run of 3 or
\* more in a row or column (runs found by the window test, not by the scan).
C18_PlayableIffSomeSwapMakesRun ==
    gen.pc = "answer" =>
        (gen.playable <=>
            \E pq \in AdjacentPairs : HasRun(swapCandies(gen.board, pq[1], pq[2])))

\* b is the striped board with one tile of another colour
Recoloured(b) ==
    Cardinality({p \in Positions :
                    b[p.row][p.col].color # StripeColors[p.row + 1][p.col + 1]}) = 1

\* the answer for a recoloured board whose only moves swap two tiles of one
\* column
C18_Witness ==
    /\ gen.pc = "answer"
    /\ gen.playable
    /\ Recoloured(gen.board)
    /\ \A pq \in AdjacentPairs :
          HasRun(swapCandies(gen.board, pq[1], pq[2])) => pq[1].col = pq[2].col

\* the answer for a recoloured board on which no swap makes a run
C18_DeadWitness == gen.pc = "answer" /\ ~gen.playable /\ Recoloured(gen.board)

\* a handler returns: InvalidDone and Finish are the steps that take a handler
\* away
HandlerEnds == handlers' \subseteq handlers /\ handlers' # handlers

\* C19: the status changes of a swap follow idle -> resolving -> idle, won or
\* lost: a swap of two adjacent tiles happens in status idle and sets the
\* status to resolving, a handler that ends changes the status only from
\* resolving and only to idle, won or lost, and every state with status
\* resolving is followed by a state with status idle, won or lost.
C19_SwapStatusSequence ==
    /\ [][/\ turns' # turns => (status = "idle" /\ status' = "resolving")
          /\ (HandlerEnds /\ status' # status)
                => (status = "resolving" /\ status' \in {"idle", "won", "lost"})]_vars
    /\ ((status = "resolving") ~> (status \in {"idle", "won", "lost"}))

\* a swap that was resolved with a match and ended in status idle
C19_Witness ==
    turns = 1 /\ handlers = {} /\ lastAction = "finish" /\ status = "idle"

\* a swap that ended the run: its handler set the status to lost
C19_LostWitness ==
    turns = 1 /\ handlers = {} /\ lastAction = "finish" /\ status = "lost"

\* the step is not one of a handler in flight: handlers take no part in it
OtherOperation == handlers' = handlers

\* the board a turn of handler h should end on: the board before the swap
\* when the swap made no step, else the last cascade board
FinalBoard(h) ==
    IF Len(h.steps) = 0 THEN h.previousBoard ELSE h.steps[Len(h.steps)].board

\* C20: while a swap is being resolved, a step that is not a step of its
\* handler leaves board, movesLeft and score as they are; and when the
\* handler returns, the board is the final board of its resolution, or the
\* freshly generated board that replaces a final board without a playable
\* move.
C20_TurnsAreSequential ==
    [][/\ (status = "resolving" /\ handlers # {} /\ OtherOperation)
            => (board' = board /\ movesLeft' = movesLeft /\ score' = score)
       /\ \A h \in handlers \ handlers' :
            HandlerEnds =>
               \/ board' = FinalBoard(h)
               \/ (Len(h.steps) > 0 /\ FreshBoard' /\ ~hasPlayableMove(FinalBoard(h)))]_vars

\* the storage of the contract without the record of the last call
Storage(c) == [c EXCEPT !.call = Deployed.call]

\* the last call reverted and left the storage as it was
CallReverted == ~chain'.call.ok /\ Storage(chain') = Storage(chain)

\* the entry fee in the words of the specification: the larger of the minimum
\* fee and the share feeBps of the pool before the payment
RequiredFee(c) == Max(c.minEntryFee, (c.totalPool * c.feeBps) \div 10000)

\* C22: enterRun creates a run only when the payment is at least the larger of
\* minEntryFee and totalPool * feeBps / 10000, taken on the pool before the
\* payment; with a smaller payment the call reverts and the storage stays as
\* it was.
C22_EntryNeedsTheFee ==
    [][\A sender \in Players, value \in Payments, transferOk \in BOOLEAN :
          EnterRun(sender, value, transferOk) =>
             /\ chain'.lastRunId # chain.lastRunId => value >= RequiredFee(chain)
             /\ value < RequiredFee(chain) => CallReverted]_vars

\* an entry was refused for its fee while the share of the pool is above the
\* minimum fee
C22_Witness ==
    /\ chain.call = [op |-> "enterRun", ok |-> FALSE, reason |-> "Fee too low"]
    /\ (chain.totalPool * chain.feeBps) \div 10000 > chain.minEntryFee

\* an entry was accepted at a fee above the minimum fee
C22_PaidWitness ==
    /\ chain.call.op = "enterRun" /\ chain.call.ok
    /\ chain.totalPool > 4000
    /\ chain.lastRunId = 1

\* C23: an enterRun that succeeds splits the payment without loss: the project
\* wallet receives floor(msg.value * projectBps / 10000) and totalPool grows
\* by all the rest of the payment, which the contract keeps.
C23_EntrySplitsWithoutLoss ==
    [][\A sender \in Players, value \in Payments, transferOk \in BOOLEAN :
          (EnterRun(sender, value, transferOk) /\ chain'.call.ok) =>
             LET share == (value * chain.projectBps) \div 10000
             IN  /\ chain'.received[chain.projectWallet]
                       = chain.received[chain.projectWallet] + share
                 /\ chain'.totalPool = chain.totalPool + (value - share)
                 /\ chain'.balance = chain.balance + (value - share)]_vars

\* an entry of 15 wei at the split 7000 / 3000 succeeded: 4 wei to the wallet
\* and 11 to the pool, one of them the rounding remainder
C23_Witness ==
    /\ chain.call.op = "enterRun" /\ chain.call.ok
    /\ chain.projectBps = 3000
    /\ chain.received["wallet"] = 4
    /\ chain.totalPool = 11

NewlyClaimed ==
    {runId \in DOMAIN chain.runs :
        chain.runs[runId].status # "Claimed" /\ chain'.runs[runId].status = "Claimed"}

\* C25: the status of a run only advances Active -> Finalized -> Claimed: a
\* run is finalized at most once and paid at most once, and claimReward
\* succeeds only for the address that entered the run, on a run that is
\* Finalized with a reward above 0.
C25_RunStatusOnlyAdvances ==
    [][/\ DOMAIN chain.runs \subseteq DOMAIN chain'.runs
       /\ \A runId \in DOMAIN chain.runs :
             /\ chain'.runs[runId].player = chain.runs[runId].player
             /\ \/ chain'.runs[runId].status = chain.runs[runId].status
                \/ chain.runs[runId].status = "Active"
                      /\ chain'.runs[runId].status = "Finalized"
                \/ chain.runs[runId].status = "Finalized"
                      /\ chain'.runs[runId].status = "Claimed"
             /\ chain.runs[runId].status # "Active"
                   => chain'.runs[runId].score = chain.runs[runId].score
       /\ Cardinality(NewlyClaimed) <= 1
       /\ \A p \in Players :
             chain'.received[p] - chain.received[p]
                = IF \E runId \in NewlyClaimed : chain.runs[runId].player = p
                  THEN LET runId == CHOOSE r \in NewlyClaimed : TRUE
                       IN  chain.runs[runId].reward
                  ELSE 0
       /\ (chain'.call.op = "claimReward" /\ chain'.call.ok) =>
             \A sender \in Callers, runId \in PoolRunIds, transferOk \in BOOLEAN :
                ClaimReward(sender, runId, transferOk) =>
                   /\ sender = RunAt(chain, runId).player
                   /\ RunAt(chain, runId).status = "Finalized"
                   /\ RunAt(chain, runId).reward > 0
                   /\ NewlyClaimed = {runId}]_vars

\* a claim was refused as not ready although no run is Active: it asked for a
\* run that had been paid
C25_Witness ==
    /\ chain.call = [op |-> "claimReward", ok |-> FALSE, reason |-> "Not ready"]
    /\ \A runId \in DOMAIN chain.runs : chain.runs[runId].status # "Active"
    /\ chain.runs[1].status = "Claimed"
    /\ chain.received["alice"] > 0

\* C26: once a run is finalized with a reward above 0, its player can claim it
\* whenever the contract is not paused, whatever calls were made since: the
\* claim of a player who accepts the ether succeeds and pays exactly the
\* recorded reward.
C26_FinalizedRewardIsClaimable ==
    \A runId \in DOMAIN chain.runs :
       LET info == chain.runs[runId]
           claim == claimReward(chain, info.player, runId, TRUE)
       IN  (info.status = "Finalized" /\ info.reward > 0 /\ ~chain.paused)
              => /\ claim.ok
                 /\ claim.state.received[info.player]
                       = chain.received[info.player] + info.reward

\* the tiers whose threshold the score reaches
TiersReached(c, points) == {i \in DOMAIN c.tierScores : c.tierScores[i] <= points}

\* the reward in the words of the specification: the share of the pool of the
\* tier with the highest threshold at or below the score, 0 below every
\* threshold
TierReward(c, points) ==
    IF TiersReached(c, points) = {} THEN 0
    ELSE LET top == CHOOSE i \in TiersReached(c, points) :
                       \A j \in TiersReached(c, points) : c.tierScores[j] <= c.tierScores[i]
         IN  (c.totalPool * c.tierBps[top]) \div 10000

\* the runs that become Finalized in this step
NewlyFinalized ==
    {runId \in DOMAIN chain.runs :
        chain.runs[runId].status = "Active" /\ chain'.runs[runId].status = "Finalized"}

\* C27: finalizeRun records reward = totalPool * bps / 10000, bps being the
\* share of the highest tier whose threshold is at or below the score, and 0
\* when the score is below every threshold; it reverts, and the run stays
\* Active, when that reward is above totalPool - reservedPool.  The score of
\* the call is the one the run records.
C27_RewardOfTheHighestTier ==
    [][/\ (chain'.call.op = "finalizeRun" /\ chain'.call.ok) =>
             \A runId \in NewlyFinalized :
                LET reward == TierReward(chain, chain'.runs[runId].score)
                IN  /\ chain'.runs[runId].reward = reward
                    /\ chain'.reservedPool = chain.reservedPool + reward
                    /\ reward <= chain.totalPool - chain.reservedPool
       /\ \A runId \in DOMAIN chain.runs, runScore \in Scores :
             (/\ chain.runs[runId].status = "Active"
              /\ TierReward(chain, runScore) > chain.totalPool - chain.reservedPool)
                => ~finalizeRun(chain, chain.scoreKeeper, runId, runScore).ok
       /\ chain'.call = [op |-> "finalizeRun", ok |-> FALSE, reason |-> "Pool insufficient"]
             => /\ Storage(chain') = Storage(chain)
                /\ \E runId \in DOMAIN chain.runs, runScore \in Scores :
                      /\ chain.runs[runId].status = "Active"
                      /\ TierReward(chain, runScore) > chain.totalPool - chain.reservedPool]_vars

\* a finalization of the active run was refused because the pool left is
\* below its reward
C27_Witness ==
    /\ chain.call = [op |-> "finalizeRun", ok |-> FALSE, reason |-> "Pool insufficient"]
    /\ chain.runs[PoolRuns].status = "Active"
    /\ chain.totalPool - chain.reservedPool < TierReward(chain, 20000)

\* the last run was finalized with the share of the second tier of a pool
\* that a top-up had filled
C27_TopTierWitness ==
    /\ chain.call.op = "finalizeRun" /\ chain.call.ok
    /\ chain.runs[PoolRuns].status = "Finalized"
    /\ chain.runs[PoolRuns].reward = (chain.totalPool * 2000) \div 10000
    /\ chain.runs[PoolRuns].reward > 100

\* C28: while the contract is paused, enterRun, finalizeRun and claimReward
\* revert and leave totalPool, reservedPool, totalDistributed and the run
\* records as they were; pause and unpause change nothing but the pause flag,
\* so after unpause the three calls act on the storage as before the pause.
C28_PausedCallsRevert ==
    [][/\ (chain.paused /\ chain'.call.op \in {"enterRun", "finalizeRun", "claimReward"})
             => /\ ~chain'.call.ok
                /\ chain'.totalPool = chain.totalPool
                /\ chain'.reservedPool = chain.reservedPool
                /\ chain'.totalDistributed = chain.totalDistributed
                /\ chain'.runs = chain.runs
                /\ Storage(chain') = Storage(chain)
       /\ chain'.call.op \in {"pause", "unpause"}
             => /\ [Storage(chain') EXCEPT !.paused = chain.paused] = Storage(chain)
                /\ chain'.call.ok => chain'.paused = (chain'.call.op = "pause")]_vars

\* the claim of a finalized reward was refused because the contract is paused
C28_Witness ==
    /\ chain.paused
    /\ chain.call = [op |-> "claimReward", ok |-> FALSE, reason |-> "EnforcedPause"]
    /\ RunAt(chain, 1).status = "Finalized"
    /\ RunAt(chain, 1).reward > 0

\* the contract was unpaused with a finalized reward waiting
C28_UnpausedWitness ==
    /\ chain.call.op = "unpause" /\ chain.call.ok
    /\ RunAt(chain, 1).status = "Finalized"
    /\ RunAt(chain, 1).reward > 0

\* C30: the steps of a MatchResult are in resolution order: the positions of a
\* detection step are exactly the cells of the line matches on the board of
\* the step before it (on the input board for the first step of
\* resolveMatches), there is at least one of them, and the tiles that leave
\* the board in the step lay on these positions, so no step is merged with
\* another or skipped; the board of the result is the board of the last step,
\* on which no line match is left.
C30_StepsInResolutionOrder ==
    /\ \A i \in 1 .. Len(steps) :
          DetectionStep(i) =>
             /\ Range(steps[i].positions) = {q \in Positions : InRun(BoardBefore(i), q)}
             /\ Len(steps[i].positions) > 0
             /\ Vanished(i) # {}
             /\ Vanished(i) \subseteq
                   {BoardBefore(i)[q.row][q.col].id : q \in Range(steps[i].positions)}
    /\ pc = "done" =>
          /\ Result.steps = steps
          /\ Result.board = IF Len(steps) = 0 THEN input ELSE steps[Len(steps)].board
          /\ ~HasRun(Result.board)

\* resolveMatches returned a result of three steps or more
C30_Witness == pc = "done" /\ fn = "resolveMatches" /\ Len(steps) >= 3

\* the tiles of colour c removed over the steps of handler h
Collected(h, c) ==
    LET counted == {i \in DOMAIN h.steps : c \in DOMAIN h.steps[i].removedCountByColor}
    IN  SumOver([i \in counted |-> h.steps[i].removedCountByColor[c]], counted)

\* the turn of handler h completes the mission that was active at its swap
CompletesMission(h) ==
    /\ Len(h.missions) > 0
    /\ h.missions[1].progress + Collected(h, h.missions[1].color) >= h.missions[1].target

\* movesLeft at the end of the turn of handler h, in the words of the
\* specification; before is movesLeft at the swap
MovesAfterTurn(h, before) ==
    LET rewardMoves == IF CompletesMission(h) THEN h.missions[1].reward.amount ELSE 0
        after == before - 1 + rewardMoves + h.extraMoveReward
        upcoming == missionFromIndex(h.missionIndex + 1)
    IN  IF CompletesMission(h) /\ Len(upcoming) > 0
        THEN Max(after, upcoming[1].baseMoves)
        ELSE after

\* C21: a swap that resolves with at least one cascade step consumes exactly
\* one move: at the end of its turn movesLeft is movesLeft of the swap - 1
\* + the reward moves of a mission completed in this turn + extraMoveReward,
\* raised to the baseMoves of the next mission when a mission was completed;
\* a swap with no step leaves movesLeft as it was.  Between the swap and the
\* end of its turn movesLeft does not change.
C21_SwapConsumesOneMove ==
    [][/\ turns' # turns => \A h \in handlers' \ handlers : h.movesLeft = movesLeft
       /\ HandlerEnds =>
             \A h \in handlers \ handlers' :
                movesLeft' = IF Len(h.steps) = 0 THEN movesLeft
                             ELSE MovesAfterTurn(h, movesLeft)
       /\ ~HandlerEnds => (movesLeft' = movesLeft \/ status = "locked")]_vars

\* a turn ended that completed the first mission with the last move: one
\* reward move, raised to the 18 base moves of the second mission
C21_Witness ==
    /\ lastAction = "finish"
    /\ missionIndex = 1
    /\ movesLeft = computeBaseMoves(MISSION_SEQUENCE[2], 1)
    /\ status = "idle"

\* a turn ended that completed no mission and left moves
C21_PlainWitness ==
    /\ lastAction = "finish"
    /\ missionIndex = 0
    /\ movesLeft = BASE_MOVE_LIMIT - 1

\* the state of the run in the engine
RunState == <<board, score, movesLeft, missions, status>>

\* the outcomes of handleRestartPaid that end it in its catch block
RestartFailures ==
    {"no provider", "not connected", "connect failed", "switch failed", "rejected", "reverted"}

\* C29: a restart resets the engine only after a new entry payment has
\* succeeded: engine.resetState() is called once per entry transaction of the
\* restart that succeeded and leaves a fresh idle run; when the wallet
\* connection, the chain switch or the payment fails or is rejected, the
\* handler ends and board, score, moves, missions and status are as they
\* were, and no step of the handler before the reset changes them.
C29_RestartResetsOnlyAfterPayment ==
    [][/\ page'.resets # page.resets =>
             /\ page'.resets = page.resets + 1
             /\ page.paid > page.resets
             /\ status' = "idle" /\ score' = 0 /\ FreshBoard'
       /\ (page' # page /\ page'.result \in RestartFailures) =>
             /\ RunState' = RunState
             /\ page'.pc = "ready"
             /\ page'.paid = page.paid
             /\ page'.resets = page.resets
       /\ (page' # page /\ page'.resets = page.resets /\ page.pc # "mount")
             => RunState' = RunState]_vars

\* the payment of a restart was rejected in the middle of a run, which goes on
C29_Witness ==
    /\ page.result = "rejected"
    /\ page.pc = "ready"
    /\ page.resets = 0
    /\ status = "idle"
    /\ score = PersistedState.score
    /\ movesLeft = PersistedState.movesLeft

\* a restart was paid and the engine reset
C29_RestartedWitness ==
    /\ page.result = "restarted"
    /\ page.resets = 1
    /\ page.paid = 1
    /\ score = 0
    /\ status = "idle"

\* a restart connected the wallet and then ended without a payment
C29_ConnectedWitness ==
    /\ page.result = "not connected"
    /\ page.wallet.account = "alice"
    /\ page.paid = 0
    /\ score = PersistedState.score

\* the cells of step i that hold a tile created by the collapse of that step
SpawnedCells(i) ==
    {p \in Positions : steps[i].board[p.row][p.col].id \notin IdsOf(BoardBefore(i))}

\* the cells one and two to the left of p and one and two below it
LeftAndBelow(p) ==
    {q \in Positions : \/ q.row = p.row /\ q.col \in {p.col - 1, p.col - 2}
                       \/ q.col = p.col /\ q.row \in {p.row + 1, p.row + 2}}

\* C31: in the board of every cascade step, a tile spawned by the collapse
\* of that step has a colour different from the tiles one and two cells to
\* its left and one and two cells below it, so it completes no run with its
\* two left or its two lower neighbours, and the colours not used by those
\* neighbours are never all of the colours.
C31_SpawnAvoidsLeftAndBelow ==
    \A i \in DOMAIN steps :
        \A p \in SpawnedCells(i) :
            LET b == steps[i].board
                used == {b[q.row][q.col].color : q \in LeftAndBelow(p)}
            IN  /\ b[p.row][p.col].color \notin used
                /\ Colors \ used # {}
                /\ ~(p.col >= 2 /\ Triple(b, p.row, p.col - 2, 0, 1))
                /\ ~(p.row <= BOARD_SIZE - 3 /\ Triple(b, p.row, p.col, 1, 0))

\* a step that spawned a tile with all four neighbours on the board, two of
\* them spawned in the same collapse, the four neighbours using four colours
C31_Witness ==
    \E i \in DOMAIN steps :
        \E p \in SpawnedCells(i) :
            /\ Cardinality(LeftAndBelow(p)) = 4
            /\ Cardinality(LeftAndBelow(p) \cap SpawnedCells(i)) >= 2
            /\ Cardinality({steps[i].board[q.row][q.col].color : q \in LeftAndBelow(p)}) >= 3

\* the board step i of handler h started from: the swapped board, then the
\* board of the step before
StepStart(h, i) ==
    IF i = 1 THEN swapCandies(h.previousBoard, h.a, h.b) ELSE h.steps[i - 1].board

\* the tiles of colour c that left the board over all steps of handler h,
\* found by id
RemovedOfColour(h, c) ==
    LET gone(i) == {p \in Positions :
                      /\ StepStart(h, i)[p.row][p.col].color = c
                      /\ StepStart(h, i)[p.row][p.col].id \notin IdsOf(h.steps[i].board)}
    IN  SumOver([i \in DOMAIN h.steps |-> Cardinality(gone(i))], DOMAIN h.steps)

\* C32: at the end of the turn of a resolved swap the progress of the active
\* mission has grown by the number of tiles of the mission's colour removed
\* over all cascade steps of that swap; when that reaches the target the
\* mission is complete and the next mission (progress 0) takes its place.
\* The progress of a mission never decreases while it is the active mission
\* of a run, and is never below 0 or above the target.
C32_ProgressCountsRemovedTiles ==
    /\ [][/\ (HandlerEnds /\ lastAction' = "finish") =>
                \A h \in handlers \ handlers' :
                    LET m == missions[1]
                        grown == m.progress + RemovedOfColour(h, m.color)
                    IN  /\ Len(missions) > 0
                        /\ IF grown >= m.target
                           THEN /\ missionIndex' = missionIndex + 1
                                /\ missions' = missionFromIndex(missionIndex + 1)
                                /\ \A i \in DOMAIN missions' : missions'[i].progress = 0
                           ELSE /\ missionIndex' = missionIndex
                                /\ Len(missions') = Len(missions)
                                /\ missions'[1].progress = grown
                                /\ missions'[1].color = m.color
                                /\ missions'[1].target = m.target
          /\ (missionIndex' = missionIndex /\ status # "locked"
                 /\ Len(missions) > 0 /\ Len(missions') > 0)
                => missions'[1].progress >= missions[1].progress]_vars
    /\ [](\A i \in DOMAIN missions :
             missions[i].progress >= 0 /\ missions[i].progress <= missions[i].target)

\* a turn of two cascade steps or more ended and left the first mission
\* active with more tiles collected than the first step removed
C32_Witness ==
    /\ lastAction = "finish"
    /\ missionIndex = 0
    /\ Len(missions) > 0
    /\ missions[1].progress > 0
    /\ missions[1].progress < missions[1].target
    /\ turns = 1

\* a turn ended that removed more tiles of the colour than the mission
\* still needed: the mission is complete and the second mission is active
C32_CompletedWitness ==
    /\ lastAction = "finish"
    /\ missionIndex = 1
    /\ Len(missions) > 0
    /\ missions[1].progress = 0
    /\ score > 400 + 3 * MATCH_SCORE_BASE

\* the turn of handler h, ending in the current state, completes the active
\* mission: the tiles of its colour removed over the steps reach the target
CompletesActive(h) ==
    /\ Len(missions) > 0
    /\ missions[1].progress + RemovedOfColour(h, missions[1].color) >= missions[1].target

\* movesLeft - 1 + bonuses for the turn of handler h: the reward moves of a
\* mission it completes and the extra moves of its long runs
MovesWithBonuses(h) ==
    movesLeft - 1 + (IF CompletesActive(h) THEN missions[1].reward.amount ELSE 0)
              + h.extraMoveReward

LastMission == missionIndex = Len(MISSION_SEQUENCE) - 1

\* C33: a resolved swap ends in status won exactly when it completes the
\* last mission of the sequence, in lost exactly when it does not win and
\* movesLeft - 1 + bonuses <= 0, and in idle otherwise; completing a mission
\* that is not the last advances missionIndex by exactly one.  In status won
\* or lost a tile click and a player reshuffle change nothing.
C33_TurnEndsWonLostOrIdle ==
    [][/\ (HandlerEnds /\ lastAction' = "finish") =>
             \A h \in handlers \ handlers' :
                /\ status' = IF CompletesActive(h) /\ LastMission THEN "won"
                             ELSE IF MovesWithBonuses(h) <= 0 THEN "lost"
                             ELSE "idle"
                /\ (CompletesActive(h) /\ ~LastMission) => missionIndex' = missionIndex + 1
                /\ ~CompletesActive(h) => missionIndex' = missionIndex
       /\ (status \in {"won", "lost"} /\ handlers' = handlers) => hookVars' = hookVars]_vars

\* a turn completed the last mission: the run is won
C33_Witness ==
    /\ lastAction = "finish"
    /\ status = "won"
    /\ missionIndex = Len(MISSION_SEQUENCE)
    /\ missions = <<>>

\* a turn used the last move without completing the mission: the run is lost
C33_LostWitness ==
    /\ lastAction = "finish"
    /\ status = "lost"
    /\ movesLeft <= 0
    /\ handlers = {}

\* a turn completed a mission that is not the last one
C33_NextMissionWitness ==
    /\ lastAction = "finish"
    /\ status = "idle"
    /\ missionIndex = 1

\* the step replaces the board without a handler taking part and outside
\* status locked: in SpecTurn, a player reshuffle
BoardReplaced == handlers' = handlers /\ board' # board /\ status # "locked"

\* C34: the reshuffle-token count stays within 0..MAX_RESHUFFLES_PER_RUN.
\* A player reshuffle is accepted only with a count above 0 and a status
\* other than locked, won and lost; it lowers the count by exactly one and
\* replaces the board by a new one.  Nothing else lowers the count.  The
\* count rises only at the end of the turn of a swap that scored (or at the
\* start of a run), and never above the maximum.
C34_ReshuffleTokensStayInRange ==
    /\ [](reshuffles \in 0 .. MAX_RESHUFFLES_PER_RUN)
    /\ [][/\ BoardReplaced =>
                /\ reshuffles > 0
                /\ status \notin {"locked", "won", "lost"}
                /\ reshuffles' = reshuffles - 1
                /\ FreshBoard'
          /\ reshuffles' < reshuffles => BoardReplaced
          /\ (reshuffles' > reshuffles /\ status # "locked") =>
                /\ HandlerEnds /\ lastAction' = "finish"
                /\ \A h \in handlers \ handlers' : h.points > 0
                /\ reshuffles' <= MAX_RESHUFFLES_PER_RUN]_vars

\* a player reshuffle took the only token during a turn whose end then
\* granted a token for a crossed score milestone
C34_Witness ==
    /\ lastAction = "finish"
    /\ reshuffles = MAX_RESHUFFLES_PER_RUN
    /\ nextId > FirstFreeId + BOARD_SIZE * BOARD_SIZE
    /\ missionIndex = Len(MISSION_SEQUENCE) - 1
    /\ missions[1].scoreProgress >= missions[1].scoreMilestone

\* a turn crossed a score milestone with the count at its maximum: the
\* count stays at the maximum
C34_CappedWitness ==
    /\ lastAction = "finish"
    /\ reshuffles = MAX_RESHUFFLES_PER_RUN
    /\ nextId < FirstFreeId + BOARD_SIZE * BOARD_SIZE
    /\ missionIndex = Len(MISSION_SEQUENCE) - 1
    /\ missions[1].scoreProgress >= missions[1].scoreMilestone

\* a player reshuffle was refused: no token is left
C34_SpentWitness == lastAction = "reshuffle" /\ reshuffles = 0 /\ status = "idle"

\* one of the two tiles of h's swap is a bomb
SwapsBomb(h) ==
    \/ h.previousBoard[h.a.row][h.a.col].special = "bomb"
    \/ h.previousBoard[h.b.row][h.b.col].special = "bomb"

\* C35: a swap of two adjacent tiles of which at least one is a bomb
\* resolves with at least one cascade step and is not reverted as an invalid
\* swap; the cell the bomb has moved to is among the positions of the first
\* step and the bomb tile is not on the board of that step; the turn ends
\* through the end-of-turn code and consumes one move (movesLeft after the
\* turn is movesLeft - 1 plus the bonuses of the turn).
C35_BombSwapAlwaysResolves ==
    [][/\ turns' # turns =>
             \A h \in handlers' \ handlers :
                SwapsBomb(h) =>
                    /\ Len(h.steps) >= 1
                    /\ h.pc = "pop"
                    /\ lastInvalidSwap' = lastInvalidSwap
                    /\ BombAfter(h) \in Range(h.steps[1].positions)
                    /\ h.previousBoard[BombBefore(h).row][BombBefore(h).col].id
                          \notin IdsOf(h.steps[1].board)
       /\ HandlerEnds =>
             \A h \in handlers \ handlers' :
                SwapsBomb(h) =>
                    /\ lastAction' = "finish"
                    /\ movesLeft' = MovesAfterTurn(h, movesLeft)]_vars

\* the turn of a bomb swap that made no run by itself has ended with one
\* move less: the blast alone was the first step
C35_Witness ==
    /\ lastAction = "finish"
    /\ handlers = {}
    /\ turns = 1
    /\ missionIndex = Len(MISSION_SEQUENCE) - 1
    /\ movesLeft = PersistedLastMission.movesLeft - 1
    /\ \A p \in Positions : board[p.row][p.col].special # "bomb"

\* the turn handler would resolve the swap of the cells p and q of board b
\* with at least one cascade step: result.steps.length > 0 for the result it
\* computes, the blast of a bomb for a swap with a bomb, the first pass of
\* resolveMatches otherwise
ResolvesWithStep(b, p, q) ==
    LET swapped == swapCandies(b, p, q)
    IN  IF b[p.row][p.col].special = "bomb" \/ b[q.row][q.col].special = "bomb"
        THEN Len(getDetonationKeys(swapped, BombAt(b, p, q))) > 0
        ELSE Len(findLineMatches(swapped).matchKeys) > 0

SomeSwapResolves(b) == \E pq \in AdjacentPairs : ResolvesWithStep(b, pq[1], pq[2])

\* C36: hasPlayableMove(board) is false only for a board on which no swap of
\* two adjacent tiles would be resolved with a cascade step, swaps with a
\* bomb included: no board the hook shows is without a playable move while
\* some swap on it would resolve, and neither the end of a turn nor the
\* automatic reshuffle replaces such a board.
C36_DeadBoardHasNoResolvingSwap ==
    /\ [](~hasPlayableMove(board) => ~SomeSwapResolves(board))
    /\ [][/\ EndsOnDeadBoard =>
                \A h \in handlers \ handlers' :
                    ~SomeSwapResolves(h.steps[Len(h.steps)].board)
          /\ (lastAction' = "auto" /\ nextId' # nextId) => ~SomeSwapResolves(board)]_vars

\* a board with a bomb on which no swap makes a run is on display
C36_BombOnDeadBoard ==
    /\ ~hasPlayableMove(board)
    /\ \E p \in Positions : board[p.row][p.col].special = "bomb"

\* the sum of the rewards of the runs ids that are Finalized
RECURSIVE FinalizedRewards(_, _)
FinalizedRewards(c, ids) ==
    IF ids = {} THEN 0
    ELSE LET runId == CHOOSE i \in ids : TRUE
             info == c.runs[runId]
         IN  (IF info.status = "Finalized" THEN info.reward ELSE 0)
                + FinalizedRewards(c, ids \ {runId})

\* C37: in every state of the contract, after any sequence of enterRun,
\* finalizeRun, claimReward, top-ups and drainPool, reservedPool is the sum of
\* the rewards of the runs in status Finalized and is at most totalPool.
C37_ReservedPoolIsTheSumOfFinalizedRewards ==
    /\ chain.reservedPool = FinalizedRewards(chain, DOMAIN chain.runs)
    /\ chain.reservedPool <= chain.totalPool

\* drainPool has emptied the pool while a run is Finalized with a reward
C37_DrainedWithFinalizedRun ==
    /\ chain.call = [op |-> "drainPool", ok |-> TRUE, reason |-> ""]
    /\ chain.reservedPool = 0
    /\ \E runId \in DOMAIN chain.runs :
          chain.runs[runId].status = "Finalized" /\ chain.runs[runId].reward > 0

\* C38: an engine restored from the persisted snapshot is never in status
\* resolving with no turn handler in flight, the status in which every tile
\* click is ignored and that only a handler leaves.
C38_RestoredEngineIsNotStuckResolving ==
    status = "resolving" => handlers # {}

\* the run has ended and the settle effect has not run yet
RunEnded == page.currentRun # 0 /\ status \in {"won", "lost"}

\* C39: when the engine reaches won or lost while a current run exists, the
\* settle effect leaves in the pending-run list exactly one record with the
\* key of that run, with status claimable and the score of the engine (an
\* earlier record with the same key is gone), the other records stay, the
\* current run is cleared, and the engine then becomes locked.
C39_EndedRunIsSettledOnce ==
    /\ [][(RunEnded /\ page' # page) =>
             LET runKey == getRunKey(Settled(page, score))
                 kept == WithKey(page'.pending, runKey)
             IN  /\ Len(kept) = 1
                 /\ kept[1].status = "claimable"
                 /\ kept[1].score = score
                 /\ score' = score
                 /\ \A i \in DOMAIN page.pending :
                       getRunKey(page.pending[i]) # runKey =>
                          \E j \in DOMAIN page'.pending : page'.pending[j] = page.pending[i]
                 /\ Len(page'.pending)
                       = Len(page.pending) - Len(WithKey(page.pending, runKey)) + 1
                 /\ page'.currentRun = 0]_vars
    /\ [][page'.currentRun # page.currentRun => RunEnded]_vars
    /\ RunEnded ~> (page.currentRun = 0 /\ status = "locked")

\* a lost run was settled and the engine locked: its record is the first of
\* the list, before an earlier run
C39_Witness ==
    /\ page.currentRun = 0
    /\ status = "locked"
    /\ Len(page.pending) = 2
    /\ page.pending[1] = [runId |-> RunIdOf(1), txHash |-> TxHashOf(1), startedAt |-> 1,
                          score |-> score, status |-> "claimable"]
    /\ page.pending[2] = EarlierRun
    /\ score > PersistedState.score
    /\ movesLeft = 0

\* a won run was settled over a record of the same key that another window
\* had written
C39_ReplacedWitness ==
    /\ page.currentRun = 0
    /\ missionIndex = Len(MISSION_SEQUENCE)
    /\ Len(page.pending) = 2
    /\ getRunKey(page.pending[1]) = RunIdOf(1)
    /\ page.pending[1].score = score
    /\ score > PersistedLastMission.score

\* a run whose record had no run id was settled under its transaction hash
C39_NoRunIdWitness ==
    /\ page.currentRun = 0
    /\ page.runId = NoValue
    /\ Len(page.pending) >= 1
    /\ page.pending[1].runId = TxHashOf(1)
    /\ page.pending[1].status = "claimable"

\* how a claim ends when the wallet is missing or not connected, or when the
\* connection, the chain switch or the transaction fails
ClaimFailures ==
    {"no provider", "connect failed", "not connected", "switch failed", "rejected", "reverted"}

\* the records with this key that handleClaimReward accepts while no claim is
\* in flight and the list is on display
Claimable(p, key) ==
    {i \in DOMAIN p.pending :
        /\ getRunKey(p.pending[i]) = key
        /\ p.pending[i].status = "claimable"
        /\ p.pending[i].runId # NoValue
        /\ p.claimPc = "none"
        /\ p.currentRun = 0}

\* C40: a run leaves the pending-run list only in the step in which its claim
\* transaction has succeeded; when the wallet connection, the chain switch or
\* the transaction of a claim fails, the list is as it was, the run is in it
\* with status claimable, the claim state is error with a message, and the
\* run can be claimed again.
C40_RunLeavesListOnlyWhenClaimed ==
    [][/\ KeysOf(page.pending) \ KeysOf(page'.pending) # {} =>
             /\ page.claimPc = "tx"
             /\ page'.claimResult = "ok"
             /\ page'.claim.status = "success"
             /\ page'.claim.txHash # NoValue
             /\ KeysOf(page.pending) \ KeysOf(page'.pending) = {page.claimRun}
             /\ page'.claim.runKey = page.claimRun
       /\ Len(page'.pending) < Len(page.pending) => page'.claimResult = "ok"
       /\ (page'.claimResult # page.claimResult /\ page'.claimResult \in ClaimFailures) =>
             /\ page'.pending = page.pending
             /\ page'.claim.runKey = page'.claimRun
             /\ page'.claim.status = "error"
             /\ page'.claim.error # NoValue
             /\ page'.claim.txHash = NoValue
             /\ Claimable(page', page'.claim.runKey) # {}
       /\ (page'.claimResult # page.claimResult /\ page'.claimResult # "pending") =>
             page'.claimResult \in ClaimFailures \cup {"ok"}]_vars

\* the claim transaction of the settled run was reverted: the run is still
\* in the list and the claim state shows the error
C40_Witness ==
    /\ page.claimResult = "reverted"
    /\ page.claim = [runKey |-> RunIdOf(1), status |-> "error", error |-> "reverted",
                     txHash |-> NoValue]
    /\ Claimable(page, RunIdOf(1)) # {}
    /\ page.pending[1].score = score

\* the claim of the settled run succeeded: the earlier run alone is left
C40_ClaimedWitness ==
    /\ page.claimResult = "ok"
    /\ page.claim.status = "success"
    /\ page.claim.runKey = RunIdOf(1)
    /\ page.pending = <<EarlierRun>>
    /\ status = "locked"

\* a claim made without a connected wallet ended in an error after the wallet
\* had connected
C40_ConnectedWitness ==
    /\ page.claimResult = "not connected"
    /\ page.claim.status = "error"
    /\ page.wallet.account = "alice"
    /\ Claimable(page, page.claim.runKey) # {}

====
